---- MODULE Spec2Model ----
(***************************************************************************)
(* URL shortener engine: validateUrl / normalizeUrl (domain/url-validation),*)
(* ShortenUrlUseCase.execute, GetOriginalUrlUseCase.execute and the Prisma  *)
(* repositories they are wired to in libs/engine/src/index.ts.              *)
(*                                                                         *)
(* A string is a sequence of lexemes.  A lexeme is either one character    *)
(* (" ", "/", ".", "?", "#") or a run of characters that the URL parser    *)
(* never splits ("https:", "example", "192", ":8080", "q=1", ...).         *)
(***************************************************************************)
EXTENDS Naturals, Sequences, FiniteSets, Bags, TLC

(***************************************************************************)
(* Bounds of the model                                                     *)
(***************************************************************************)
\* longest run of slashes appended to a path of an input
MaxTrailingSlashes == 2
\* number of distinct codes the generator can return
NumCodes == 2
\* number of callers that can have a call in flight at the same time
NumProcs == 2
\* latest reading of the clock
MaxClock == 0
\* rows of the Visit table from which no further resolve call is started
MaxVisits == 1
\* short codes the page adds to the list of recent links
MaxShortCode == 53

(***************************************************************************)
(* Strings                                                                 *)
(***************************************************************************)
SP == " "

Schemes == {"https:", "http:", "ftp:", "mailto:"}

\* a scheme that is not made of letters only
OtherSchemes == {"h2:"}

\* the schemes the URL parser treats as "special" (a host is mandatory)
SpecialSchemes == {"https:", "http:", "ftp:"}

Digits == {"0", "1", "8", "10", "16", "127", "168", "172", "192"}

Labels == Digits \cup {"example", "com", "localhost", "[::1]", "a"}

Ports == {":8080", ":443"}

DefaultPort(protocol) ==
  IF protocol = "https:" THEN ":443" ELSE "none"

StartsWith(s, prefix) ==
  /\ Len(s) >= Len(prefix)
  /\ SubSeq(s, 1, Len(prefix)) = prefix

EndsWith(s, c) == Len(s) > 0 /\ s[Len(s)] = c

\* String.prototype.includes
includes(message, pattern) ==
  \E i \in 1..(Len(message) - Len(pattern) + 1) :
    SubSeq(message, i, i + Len(pattern) - 1) = pattern

\* index of the first lexeme of s that is in the set stop, Len(s)+1 if none
RECURSIVE IndexOfAny(_, _, _)
IndexOfAny(s, stop, i) ==
  IF i > Len(s) THEN Len(s) + 1
  ELSE IF s[i] \in stop THEN i
  ELSE IndexOfAny(s, stop, i + 1)

\* index of the first lexeme of s at or after i that is not c
RECURSIVE SkipAll(_, _, _)
SkipAll(s, c, i) ==
  IF i > Len(s) THEN Len(s) + 1
  ELSE IF s[i] = c THEN SkipAll(s, c, i + 1)
  ELSE i

\* String.prototype.trim
RECURSIVE TrimLeft(_)
TrimLeft(s) ==
  IF s # <<>> /\ Head(s) = SP THEN TrimLeft(Tail(s)) ELSE s

RECURSIVE TrimRight(_)
TrimRight(s) ==
  IF s # <<>> /\ s[Len(s)] = SP THEN TrimRight(SubSeq(s, 1, Len(s) - 1)) ELSE s

trim(s) == TrimRight(TrimLeft(s))

(***************************************************************************)
(* new URL(string): the WHATWG parser on the lexemes above.  The result    *)
(* has ok = FALSE where the constructor throws TypeError.  The hosts of    *)
(* the inputs are domain names, four-part IPv4 literals and a bracketed    *)
(* IPv6 literal, all of which the host parser serialises unchanged.        *)
(***************************************************************************)
InvalidURL ==
  [ok |-> FALSE, protocol |-> "", hostname |-> <<>>, port |-> <<>>,
   pathname |-> <<>>, search |-> <<>>, hash |-> <<>>]

\* a host is labels separated by single dots
RECURSIVE IsHost(_)
IsHost(h) ==
  IF h = <<>> THEN FALSE
  ELSE IF Len(h) = 1 THEN h[1] \in Labels
  ELSE /\ Len(h) >= 3
       /\ h[1] \in Labels
       /\ h[2] = "."
       /\ IsHost(SubSeq(h, 3, Len(h)))

\* path, query and fragment of the part of the input after the authority
PathOf(rest) == SubSeq(rest, 1, IndexOfAny(rest, {"?", "#"}, 1) - 1)

QueryOf(rest) ==
  LET q == IndexOfAny(rest, {"?", "#"}, 1)
      h == IndexOfAny(rest, {"#"}, 1)
  IN  IF q <= Len(rest) /\ rest[q] = "?" THEN SubSeq(rest, q, h - 1) ELSE <<>>

FragmentOf(rest) ==
  LET h == IndexOfAny(rest, {"#"}, 1)
  IN  SubSeq(rest, h, Len(rest))

\* URL.search and URL.hash are empty for an empty query or fragment
SearchOf(rest) == IF Len(QueryOf(rest)) <= 1 THEN <<>> ELSE QueryOf(rest)

HashOf(rest) == IF Len(FragmentOf(rest)) <= 1 THEN <<>> ELSE FragmentOf(rest)

\* authority: host and optional port, then path, query and fragment
ParseAuthority(protocol, s, from) ==
  LET stop == IndexOfAny(s, {"/", "?", "#"}, from)
      auth == SubSeq(s, from, stop - 1)
      hasPort == auth # <<>> /\ auth[Len(auth)] \in Ports
      hostname == IF hasPort THEN SubSeq(auth, 1, Len(auth) - 1) ELSE auth
      port == IF hasPort /\ auth[Len(auth)] # DefaultPort(protocol)
              THEN <<auth[Len(auth)]>> ELSE <<>>
      rest == SubSeq(s, stop, Len(s))
      special == protocol \in SpecialSchemes
  IN  IF special /\ ~IsHost(hostname) THEN InvalidURL
      ELSE IF hasPort /\ hostname = <<>> THEN InvalidURL
      ELSE IF ~special /\ hostname # <<>> /\ ~IsHost(hostname) THEN InvalidURL
      ELSE [ok |-> TRUE, protocol |-> protocol, hostname |-> hostname,
            port |-> port,
            pathname |-> IF PathOf(rest) = <<>> /\ special
                         THEN <<"/">> ELSE PathOf(rest),
            search |-> SearchOf(rest), hash |-> HashOf(rest)]

URLParse(s) ==
  IF s = <<>> \/ Head(s) \notin Schemes \cup OtherSchemes THEN InvalidURL
  ELSE IF Head(s) \in SpecialSchemes
       \* special schemes: every slash after the scheme is skipped
       THEN ParseAuthority(Head(s), s, SkipAll(s, "/", 2))
  ELSE IF Len(s) >= 3 /\ s[2] = "/" /\ s[3] = "/"
       THEN ParseAuthority(Head(s), s, 4)
  ELSE \* opaque path, no host
       LET rest == Tail(s)
       IN  [ok |-> TRUE, protocol |-> Head(s), hostname |-> <<>>,
            port |-> <<>>, pathname |-> PathOf(rest),
            search |-> SearchOf(rest), hash |-> HashOf(rest)]

(***************************************************************************)
(* domain/url-validation.ts                                                *)
(***************************************************************************)
Valid == "valid"
Empty == "URL cannot be empty or whitespace only"
Malformed == "Invalid URL format"
ProtocolNotAllowed == "URL must use HTTPS protocol"
MissingHost == "URL must have a valid hostname"
PrivateOrLocalHost == "URL cannot be a local or private IP address"

ValidationErrors ==
  {Empty, Malformed, ProtocolNotAllowed, MissingHost, PrivateOrLocalHost}

\* /^\d+\.\d+\.\d+\.\d+$/
IsDottedQuad(hostname) ==
  /\ Len(hostname) = 7
  /\ \A i \in {1, 3, 5, 7} : hostname[i] \in Digits
  /\ \A i \in {2, 4, 6} : hostname[i] = "."

IsLocalOrPrivateRanges(hostname) ==
  \/ hostname = <<"localhost">>
  \/ hostname = <<"127", ".", "0", ".", "0", ".", "1">>
  \/ StartsWith(hostname, <<"192", ".", "168", ".">>)
  \/ StartsWith(hostname, <<"10", ".">>)

IsLocalOrPrivate(hostname) ==
  \/ hostname = <<"localhost">>
  \/ hostname = <<"127", ".", "0", ".", "0", ".", "1">>
  \/ StartsWith(hostname, <<"192", ".", "168", ".">>)
  \/ StartsWith(hostname, <<"10", ".">>)
  \/ IsDottedQuad(hostname)

validateUrlSwapped(url) ==
  LET trimmedUrl == trim(url)
      parsedUrl == URLParse(trimmedUrl)
  IN  IF trimmedUrl = <<>> THEN Empty
      ELSE IF ~parsedUrl.ok THEN Malformed
      ELSE IF parsedUrl.hostname = <<>> THEN MissingHost
      ELSE IF IsLocalOrPrivate(parsedUrl.hostname) THEN PrivateOrLocalHost
      ELSE IF parsedUrl.protocol # "https:" THEN ProtocolNotAllowed
      ELSE Valid

\* the value is Valid where the function returns, and the message of the
\* InvalidUrlError where it throws
validateUrl(url) ==
  LET trimmedUrl == trim(url)
      parsedUrl == URLParse(trimmedUrl)
  IN  IF trimmedUrl = <<>> THEN Empty
      ELSE IF ~parsedUrl.ok THEN Malformed
      ELSE IF parsedUrl.protocol # "https:" THEN ProtocolNotAllowed
      ELSE IF parsedUrl.hostname = <<>> THEN MissingHost
      ELSE IF IsLocalOrPrivate(parsedUrl.hostname) THEN PrivateOrLocalHost
      ELSE Valid

\* normalizeUrl throws (TypeError of new URL) exactly where this holds
normalizeUrlThrows(url) == ~URLParse(trim(url)).ok

\* normalizeUrl without the removal of the trailing slash
normalizeUrlKeepSlash(url) ==
  LET parsedUrl == URLParse(trim(url))
      pathname == parsedUrl.pathname
      kept == IF pathname = <<"/">> \/ pathname = <<>> THEN <<>>
              ELSE pathname
  IN  <<parsedUrl.protocol, "/", "/">> \o parsedUrl.hostname \o parsedUrl.port
        \o kept \o parsedUrl.search \o parsedUrl.hash

normalizeUrl(url) ==
  LET parsedUrl == URLParse(trim(url))
      pathname == parsedUrl.pathname
      kept == IF pathname = <<"/">> \/ pathname = <<>> THEN <<>>
              ELSE IF EndsWith(pathname, "/")
                   THEN SubSeq(pathname, 1, Len(pathname) - 1)
              ELSE pathname
  IN  <<parsedUrl.protocol, "/", "/">> \o parsedUrl.hostname \o parsedUrl.port
        \o kept \o parsedUrl.search \o parsedUrl.hash

(***************************************************************************)
(* hooks/useUrlValidation.ts                                               *)
(***************************************************************************)
MAX_URL_LENGTH == 2048

\* lexemes that stand for one character repeated: a path segment of 2028,
\* 2029 or 2100 letters, and a scheme of 2046 letters with its colon
Repeated ==
  ("a{2028}" :> 2028) @@ ("a{2029}" :> 2029) @@ ("a{2100}" :> 2100)
    @@ ("x{2046}:" :> 2047)

\* String.prototype.length, in characters
RECURSIVE length(_)
length(s) ==
  IF s = <<>> THEN 0
  ELSE (IF Head(s) \in DOMAIN Repeated THEN Repeated[Head(s)]
        ELSE Len(Head(s)))
       + length(Tail(s))

\* the scheme lexemes that are letters and a colon
LetterSchemes == Schemes \cup {"HTTPS:", "x{2046}:"}

\* /^[a-z]+:\/\/$/i
IsProtocolOnly(trimmedUrl) ==
  /\ Len(trimmedUrl) = 3
  /\ trimmedUrl[1] \in LetterSchemes
  /\ trimmedUrl[2] = "/"
  /\ trimmedUrl[3] = "/"

\* the hostname tests of isLocalhost and isPrivateIP
IsLocalhostOrPrivateIP(hostname) ==
  \/ hostname = <<"localhost">>
  \/ hostname = <<"127", ".", "0", ".", "0", ".", "1">>
  \/ StartsWith(hostname, <<"192", ".", "168", ".">>)
  \/ StartsWith(hostname, <<"10", ".">>)
  \/ StartsWith(hostname, <<"172", ".", "16", ".">>)
  \/ IsDottedQuad(hostname)

\* a ValidationResult: the type of its error, "null" for no error
Rejected(type) == [isValid |-> FALSE, type |-> type]

Accepted == [isValid |-> TRUE, type |-> "null"]

NotValidated == [isValid |-> FALSE, type |-> "pending"]

\* validateUrlFormat with the length measured after the string is parsed
validateUrlFormatParsedFirst(url) ==
  LET trimmedUrl == trim(url)
      parsedUrl == URLParse(trimmedUrl)
  IN  IF url = <<>> \/ trimmedUrl = <<>> THEN Rejected("empty")
      ELSE IF IsProtocolOnly(trimmedUrl) THEN Rejected("hostname")
      ELSE IF ~parsedUrl.ok THEN Rejected("format")
      ELSE IF length(trimmedUrl) > MAX_URL_LENGTH THEN Rejected("length")
      ELSE IF parsedUrl.protocol # "https:" /\ parsedUrl.protocol # "http:"
           THEN Rejected("protocol")
      ELSE IF parsedUrl.hostname = <<>> THEN Rejected("hostname")
      ELSE IF IsLocalhostOrPrivateIP(parsedUrl.hostname)
           THEN Rejected("private")
      ELSE Accepted

validateUrlFormat(url) ==
  LET trimmedUrl == trim(url)
      parsedUrl == URLParse(trimmedUrl)
  IN  IF url = <<>> \/ length(trim(url)) = 0 THEN Rejected("empty")
      ELSE IF IsProtocolOnly(trimmedUrl) THEN Rejected("hostname")
      ELSE IF length(trimmedUrl) > MAX_URL_LENGTH THEN Rejected("length")
      ELSE IF ~parsedUrl.ok THEN Rejected("format")
      ELSE IF parsedUrl.protocol # "https:" /\ parsedUrl.protocol # "http:"
           THEN Rejected("protocol")
      ELSE IF parsedUrl.hostname = <<>> THEN Rejected("hostname")
      ELSE IF IsLocalhostOrPrivateIP(parsedUrl.hostname)
           THEN Rejected("private")
      ELSE Accepted

(***************************************************************************)
(* Inputs                                                                  *)
(***************************************************************************)
RECURSIVE Slashes(_)
Slashes(k) == IF k = 0 THEN <<>> ELSE <<"/">> \o Slashes(k - 1)

Hosts ==
  { <<"example", ".", "com">>,
    <<"localhost">>,
    <<"127", ".", "0", ".", "0", ".", "1">>,
    <<"192", ".", "168", ".", "1", ".", "1">>,
    <<"10", ".", "0", ".", "0", ".", "1">>,
    <<"8", ".", "8", ".", "8", ".", "8">>,
    <<"10", ".", "example", ".", "com">>,
    <<"[::1]">>,
    <<>> }

Paths ==
  {Slashes(k) : k \in 0..MaxTrailingSlashes}
    \cup {<<"/", "a">> \o Slashes(k) : k \in 0..MaxTrailingSlashes}

Queries == {<<>>, <<"?">>, <<"?", "q=1">>}

Fragments == {<<>>, <<"#", "h">>}

Pads == {<<>>, <<SP>>}

OptionalPorts == {<<>>} \cup {<<port>> : port \in Ports}

RawInputs ==
  { lead \o <<scheme, "/", "/">> \o host \o port \o path \o query \o fragment
      \o trail :
      lead \in Pads, scheme \in Schemes, host \in Hosts,
      port \in OptionalPorts, path \in Paths, query \in Queries,
      fragment \in Fragments, trail \in Pads }
    \cup { <<>>, <<SP>>, <<SP, SP>>,
           <<"not", SP, "a", SP, "url">>,
           <<"example", ".", "com">>,
           <<"mailto:", "a">>,
           <<"https:", "example", ".", "com">> }

\* hosts in 172.16.* and next to it
FormatHosts ==
  Hosts \cup { <<"172", ".", "16", ".", "0", ".", "1">>,
               <<"172", ".", "16", ".", "example", ".", "com">>,
               <<"172", ".", "example", ".", "com">> }

\* paths of one long segment: 'https://example.com/' and 2028 letters are
\* 2048 characters
LongPaths ==
  {<<"/", segment>> : segment \in {"a{2028}", "a{2029}", "a{2100}"}}

\* the strings typed into the form: the inputs above, URLs with a host and
\* a short or a long path, a scheme and two slashes, and a host and a path
\* without a scheme
FormatInputs ==
  RawInputs
    \cup { lead \o <<scheme, "/", "/">> \o host \o path \o trail :
             lead \in Pads, scheme \in Schemes \cup OtherSchemes,
             host \in FormatHosts \ {<<>>}, path \in Paths \cup LongPaths,
             trail \in Pads }
    \cup { lead \o <<scheme, "/", "/">> \o trail :
             lead \in Pads, scheme \in LetterSchemes \cup OtherSchemes,
             trail \in Pads }
    \cup { lead \o <<"example", ".", "com">> \o path \o trail :
             lead \in Pads, path \in Paths \cup LongPaths, trail \in Pads }

(***************************************************************************)
(* domain/short-code.ts                                                    *)
(***************************************************************************)
alphabet ==
  << "0", "1", "2", "3", "4", "5", "6", "7", "8", "9",
     "A", "B", "C", "D", "E", "F", "G", "H", "I", "J", "K", "L", "M",
     "N", "O", "P", "Q", "R", "S", "T", "U", "V", "W", "X", "Y", "Z",
     "a", "b", "c", "d", "e", "f", "g", "h", "i", "j", "k", "l", "m",
     "n", "o", "p", "q", "r", "s", "t", "u", "v", "w", "x", "y", "z" >>

CodeLength == 8

\* the codes generateShortCode() can return: of the 62^8, the NumCodes that
\* differ in their last symbol only
generateShortCode ==
  { [i \in 1..CodeLength |-> IF i < CodeLength THEN alphabet[1] ELSE alphabet[k]] :
      k \in 1..NumCodes }

(***************************************************************************)
(* State                                                                   *)
(***************************************************************************)
VARIABLES
  urls,     \* table Url: rows [id, originalUrl, shortCode, createdAt]
  visits,   \* table Visit: a bag of rows [urlId, userAgent]
  now,      \* the clock read by new Date()
  calls,    \* calls[p]: the call of caller p (use case, position, locals)
  served,   \* served[code]: resolve calls that returned the locator of code
  seen,     \* a response the sequential caller got earlier and remembers
  probe,    \* a direct application of validateUrl and normalizeUrl
  health,   \* a call of DatabaseHealthCheck: query, timer and outcome
  response, \* what the loader of /s/:code answered to the last request
  localStorage  \* the browser's list of recent short codes

vars ==
  <<urls, visits, now, calls, served, seen, probe, health, response,
    localStorage>>

Procs == 1..NumProcs

UserAgents == {"none", "Mozilla"}

\* a missing row or record; a record not yet saved has its id
NoId == <<>>

NoUrl ==
  [id |-> NoId, originalUrl |-> <<>>, shortCode |-> <<>>, createdAt |-> 0]

NoError == [name |-> "", context |-> "", detail |-> ""]

\* the null a resolve call returns for an unknown code
Null == <<"null">>

Idle ==
  [op |-> "none", pc |-> "idle", originalUrl |-> <<>>, shortCode |-> <<>>,
   userAgent |-> "none", normalizedUrl |-> <<>>, attempts |-> 0,
   url |-> NoUrl, visitUrlId |-> NoId, location |-> Null, visitCount |-> 0,
   error |-> NoError]

\* localStorage without the item 'url-shortener-codes'
NoItem == [stored |-> FALSE, codes |-> <<>>]

\* the loader of /s/:code has answered no request
NoResponse == [status |-> "none", location |-> Null, body |-> <<>>]

NotProbed ==
  [raw |-> <<>>, validation |-> "pending", normalized |-> <<"pending">>,
   renormalized |-> <<"pending">>]

InFlight(c) == c.pc \notin {"idle", "returned", "threw"}

Returned(c) == c.pc = "returned"

Threw(c) == c.pc = "threw"

\* a settled call: its arguments and what the caller gets, the locals gone
Settled(c, pc) ==
  [Idle EXCEPT !.op = c.op, !.pc = pc, !.originalUrl = c.originalUrl,
               !.shortCode = IF c.op = "shorten" THEN <<>> ELSE c.shortCode,
               !.userAgent = c.userAgent]

ReturnUrl(c, url) == [Settled(c, "returned") EXCEPT !.url = url]

ReturnLocation(c, location) ==
  [Settled(c, "returned") EXCEPT !.location = location]

Throw(c, error) == [Settled(c, "threw") EXCEPT !.error = error]

(***************************************************************************)
(* adapters/prisma-repository.ts                                           *)
(***************************************************************************)
\* what the driver can reject an operation with
DriverFaults == {"PrismaClientInitializationError", "timeout", "Error"}

\* every error of the driver the handlers tell apart: request errors by
\* their code, the other Prisma classes, an Error whose message has
\* "timeout" in it, another Error, and a thrown value that is no Error
DriverErrors ==
  DriverFaults \cup
    {"P2002", "P2025", "P2024", "PrismaClientRustPanicError",
     "PrismaClientValidationError", "Timeout", "not an Error"}

\* the class the instanceof tests of handlePrismaError see
FaultClass(fault) ==
  IF fault \in {"P2002", "P2025", "P2024"} THEN "PrismaClientKnownRequestError"
  ELSE IF fault \in {"PrismaClientInitializationError",
                     "PrismaClientRustPanicError",
                     "PrismaClientValidationError"} THEN fault
  ELSE IF fault = "not an Error" THEN "none"
  ELSE "Error"

\* error.message.  P2024 is the driver's error for a connection pool that
\* gave no connection within its deadline
FaultMessage(fault) ==
  IF fault = "P2002"
  THEN <<"Unique", SP, "constraint", SP, "failed">>
  ELSE IF fault = "P2025" THEN <<"Record", SP, "not", SP, "found">>
  ELSE IF fault = "P2024"
  THEN <<"Timed", SP, "out", SP, "fetching", SP, "a", SP, "new", SP,
         "connection", SP, "(", "pool", SP, "timeout", ":", SP, "10", ")">>
  ELSE IF fault = "PrismaClientInitializationError"
  THEN <<"Can't", SP, "reach", SP, "database", SP, "server">>
  ELSE IF fault = "timeout" THEN <<"Query", SP, "timeout", SP, "exceeded">>
  ELSE IF fault = "Timeout" THEN <<"Timeout", SP, "exceeded">>
  ELSE IF fault = "not an Error" THEN <<>>
  ELSE <<"Something", SP, "failed">>

\* PrismaUrlRepository.handlePrismaError.  In the detail of an error that
\* carries the driver's message the name of the fault stands for it
handlePrismaError(fault, context) ==
  IF FaultClass(fault) = "PrismaClientKnownRequestError"
  THEN IF fault = "P2002"
       THEN [name |-> "DatabaseError", context |-> context,
             detail |-> "Duplicate entry detected"]
       ELSE IF fault = "P2025"
       THEN [name |-> "DatabaseError", context |-> context,
             detail |-> "Record not found"]
       ELSE [name |-> "DatabaseError", context |-> context, detail |-> fault]
  ELSE IF FaultClass(fault) = "PrismaClientInitializationError"
  THEN [name |-> "DatabaseConnectionError", context |-> context,
        detail |-> "Unable to connect to database. Please ensure the database is running."]
  ELSE IF FaultClass(fault) = "PrismaClientRustPanicError"
  THEN [name |-> "DatabaseError", context |-> context,
        detail |-> "Database engine error"]
  ELSE IF FaultClass(fault) = "PrismaClientValidationError"
  THEN [name |-> "DatabaseError", context |-> context,
        detail |-> "Invalid data provided"]
  ELSE IF FaultClass(fault) = "Error"
            /\ includes(FaultMessage(fault), <<"timeout">>)
  THEN [name |-> "DatabaseTimeoutError", context |-> context,
        detail |-> "Operation timed out"]
  ELSE IF FaultClass(fault) = "Error"
  THEN [name |-> "DatabaseError", context |-> context, detail |-> fault]
  ELSE [name |-> "DatabaseError", context |-> context, detail |-> ""]

\* PrismaAnalyticsRepository.handlePrismaError
handleAnalyticsPrismaError(fault, context) ==
  IF FaultClass(fault) = "PrismaClientKnownRequestError"
  THEN [name |-> "DatabaseError", context |-> context, detail |-> fault]
  ELSE IF FaultClass(fault) = "PrismaClientInitializationError"
  THEN [name |-> "DatabaseConnectionError", context |-> context,
        detail |-> "Unable to connect to database"]
  ELSE IF FaultClass(fault) = "PrismaClientRustPanicError"
  THEN [name |-> "DatabaseError", context |-> context,
        detail |-> "Database engine error"]
  ELSE IF FaultClass(fault) = "PrismaClientValidationError"
  THEN [name |-> "DatabaseError", context |-> context,
        detail |-> "Invalid data"]
  ELSE IF FaultClass(fault) = "Error"
            /\ includes(FaultMessage(fault), <<"timeout">>)
  THEN [name |-> "DatabaseTimeoutError", context |-> context,
        detail |-> "Operation timed out"]
  ELSE IF FaultClass(fault) = "Error"
  THEN [name |-> "DatabaseError", context |-> context, detail |-> fault]
  ELSE [name |-> "DatabaseError", context |-> context, detail |-> ""]

\* the repository methods and the context each passes to its handler
RepositoryOperations ==
  {"save", "findByShortCode", "findAll", "findAllWithStats", "trackVisit",
   "getVisits"}

OperationContext(operation) ==
  IF operation = "save" THEN "Failed to save URL"
  ELSE IF operation = "findByShortCode" THEN "Failed to find URL by short code"
  ELSE IF operation = "findAll" THEN "Failed to fetch URLs"
  ELSE IF operation = "findAllWithStats"
  THEN "Failed to fetch URLs with statistics"
  ELSE IF operation = "trackVisit" THEN "Failed to track visit"
  ELSE "Failed to get visit count"

\* catch (error) { throw this.handlePrismaError(error, context) }
RepositoryCatch(operation, fault) ==
  IF operation \in {"trackVisit", "getVisits"}
  THEN handleAnalyticsPrismaError(fault, OperationContext(operation))
  ELSE handlePrismaError(fault, OperationContext(operation))

\* domain/errors.ts: the classes that extend ApplicationError, with the code
\* each sets; InvalidUrlError and Error are not among them
ApplicationErrorCodes ==
  [DatabaseError |-> "DATABASE_ERROR",
   DatabaseConnectionError |-> "DATABASE_CONNECTION_ERROR",
   DatabaseTimeoutError |-> "DATABASE_TIMEOUT_ERROR",
   ValidationError |-> "VALIDATION_ERROR",
   NotFoundError |-> "NOT_FOUND",
   ShortCodeGenerationError |-> "SHORT_CODE_GENERATION_ERROR",
   RateLimitError |-> "RATE_LIMIT_ERROR"]

isApplicationError(error) == error.name \in DOMAIN ApplicationErrorCodes

isDatabaseError(error) ==
  error.name \in {"DatabaseError", "DatabaseConnectionError", "DatabaseTimeoutError"}

getErrorCode(error) ==
  IF isApplicationError(error) THEN ApplicationErrorCodes[error.name]
  ELSE "UNKNOWN_ERROR"

\* prisma.url.findUnique({ where: { shortCode } }): the row, or NoUrl
findUnique(shortCode) ==
  IF \E row \in urls : row.shortCode = shortCode
  THEN CHOOSE row \in urls : row.shortCode = shortCode
  ELSE NoUrl

findByShortCode(shortCode) == findUnique(shortCode)

createNeverRejected(url) == FALSE

\* the column shortCode is unique: create is rejected with P2002
createRejected(url) == \E row \in urls : row.shortCode = url.shortCode

\* the row prisma.url.create inserts.  Its id is a key the database makes
\* up, unique among the rows and never changed: the row's unique shortCode
\* stands for it
created(url) ==
  [id |-> url.shortCode, originalUrl |-> url.originalUrl,
   shortCode |-> url.shortCode, createdAt |-> url.createdAt]

\* findMany({ orderBy: { createdAt: 'desc' } }): every order of the rows
\* in which createdAt does not increase
findAll ==
  { order \in [1..Cardinality(urls) -> urls] :
      /\ \A i, j \in 1..Cardinality(urls) : i # j => order[i] # order[j]
      /\ \A i, j \in 1..Cardinality(urls) :
           i < j => order[i].createdAt >= order[j].createdAt }

\* getVisits: url._count.visits, 0 for an unknown code
VisitsOf(urlId) ==
  LET rows == {row \in BagToSet(visits) : row.urlId = urlId}
      RECURSIVE Sum(_)
      Sum(S) == IF S = {} THEN 0
                ELSE LET row == CHOOSE r \in S : TRUE
                     IN  CopiesIn(row, visits) + Sum(S \ {row})
  IN  Sum(rows)

getVisits(shortCode) ==
  IF findUnique(shortCode) = NoUrl THEN 0
  ELSE VisitsOf(findUnique(shortCode).id)

\* a table that keeps the latest visit only
visitCreateLatest(urlId, userAgent) ==
  SetToBag({[urlId |-> urlId,
             userAgent |-> IF userAgent = "none" THEN "null" ELSE userAgent]})

visitCreateOnce(urlId, userAgent) ==
  LET row == [urlId |-> urlId,
              userAgent |-> IF userAgent = "none" THEN "null" ELSE userAgent]
  IN  SetToBag(BagToSet(visits) \cup {row})

visitCreateUntagged(urlId, userAgent) ==
  visits (+) SetToBag({[urlId |-> urlId, userAgent |-> "null"]})

\* prisma.visit.create({ data: { urlId, userAgent: userAgent || null } })
visitCreate(urlId, userAgent) ==
  LET row == [urlId |-> urlId,
              userAgent |-> IF userAgent = "none" THEN "null" ELSE userAgent]
  IN  visits (+) SetToBag({row})

(***************************************************************************)
(* use-cases/shorten-url.ts                                                *)
(***************************************************************************)
MAX_RETRIES == 10

InvalidUrlError(message) ==
  [name |-> "InvalidUrlError", context |-> "", detail |-> message]

GenerationFailed ==
  [name |-> "Error", context |-> "",
   detail |-> "Failed to generate unique short code after retries"]

\* the callback of allUrls.find
IsExisting(url, normalizedUrl) ==
  IF normalizeUrlThrows(url.originalUrl)
  THEN url.originalUrl = normalizedUrl
  ELSE normalizeUrl(url.originalUrl) = normalizedUrl

\* allUrls.find(...): the first match, NoUrl for undefined
RECURSIVE Find(_, _, _)
Find(allUrls, normalizedUrl, i) ==
  IF i > Len(allUrls) THEN NoUrl
  ELSE IF IsExisting(allUrls[i], normalizedUrl) THEN allUrls[i]
  ELSE Find(allUrls, normalizedUrl, i + 1)

LoopContinuesOnceMore(attempts) == attempts <= MAX_RETRIES

\* while (attempts < MAX_RETRIES)
LoopContinues(attempts) == attempts < MAX_RETRIES

\* the head of the retry loop, and the throw that follows the loop
LoopTest(c) ==
  IF LoopContinues(c.attempts) THEN [c EXCEPT !.pc = "findByShortCode"]
  ELSE Throw(c, GenerationFailed)

ShortenStartUnvalidated(originalUrl) ==
  LET c == [Idle EXCEPT !.op = "shorten", !.originalUrl = originalUrl]
  IN  IF normalizeUrlThrows(originalUrl) THEN Throw(c, InvalidUrlError(Malformed))
      ELSE [c EXCEPT !.pc = "findAll",
                     !.normalizedUrl = normalizeUrl(originalUrl)]

\* steps 1 and 2, up to the first await
ShortenStart(originalUrl) ==
  LET c == [Idle EXCEPT !.op = "shorten", !.originalUrl = originalUrl]
  IN  IF validateUrl(originalUrl) # Valid
      THEN Throw(c, InvalidUrlError(validateUrl(originalUrl)))
      ELSE [c EXCEPT !.pc = "findAll",
                     !.normalizedUrl = normalizeUrl(originalUrl)]

\* return this.urlRepository.save(url): the body of execute ends here, and
\* what is left of the call is the pending save of url
SaveIssued(c, url) ==
  [Idle EXCEPT !.op = c.op, !.pc = "save", !.originalUrl = c.originalUrl,
               !.url = url]

ShortenExecute(p, originalUrl) ==
  /\ ~InFlight(calls[p])
  /\ calls' = [calls EXCEPT ![p] = ShortenStart(originalUrl)]
  /\ UNCHANGED <<urls, visits, now, served, seen, probe, health, response, localStorage>>

ShortenFindAllNoReturn(p) ==
  /\ calls[p].op = "shorten"
  /\ calls[p].pc = "findAll"
  /\ calls' = [calls EXCEPT ![p] = LoopTest(calls[p])]
  /\ UNCHANGED <<urls, visits, now, served, seen, probe, health, response, localStorage>>

\* step 3: the scan for a stored equivalent locator
ShortenFindAll(p) ==
  /\ calls[p].op = "shorten"
  /\ calls[p].pc = "findAll"
  /\ \E allUrls \in findAll :
       LET c == calls[p]
           existingUrl == Find(allUrls, c.normalizedUrl, 1)
       IN  calls' = [calls EXCEPT ![p] =
                       IF existingUrl # NoUrl
                       THEN ReturnUrl(c, existingUrl)
                       ELSE LoopTest(c)]
  /\ UNCHANGED <<urls, visits, now, served, seen, probe, health, response, localStorage>>

\* codes that get longer with the number of records, as those of the
\* ShortCodeGenerator of short-code-generator.ts can
generateShortCodeScaled ==
  { [i \in 1..(CodeLength + Cardinality(urls)) |->
       IF i < CodeLength + Cardinality(urls) THEN alphabet[1] ELSE alphabet[k]] :
      k \in 1..NumCodes }

\* the loop with the generator of scaled codes
ShortenFindByShortCodeScaled(p) ==
  /\ calls[p].op = "shorten"
  /\ calls[p].pc = "findByShortCode"
  /\ \E shortCode \in generateShortCodeScaled :
       LET c == calls[p]
       IN  IF findByShortCode(shortCode) = NoUrl
           THEN \E date \in now..MaxClock :
                  /\ now' = date
                  /\ calls' = [calls EXCEPT ![p] =
                                 SaveIssued(c, [NoUrl EXCEPT
                                                  !.originalUrl = c.normalizedUrl,
                                                  !.shortCode = shortCode,
                                                  !.createdAt = date])]
           ELSE /\ calls' = [calls EXCEPT ![p] =
                               LoopTest([c EXCEPT !.attempts = c.attempts + 1])]
                /\ UNCHANGED now
  /\ UNCHANGED <<urls, visits, served, seen, probe, health, response, localStorage>>

\* step 4: one turn of the loop up to the save or the next turn
ShortenFindByShortCode(p) ==
  /\ calls[p].op = "shorten"
  /\ calls[p].pc = "findByShortCode"
  /\ \E shortCode \in generateShortCode :
       LET c == calls[p]
       IN  IF findByShortCode(shortCode) = NoUrl
           THEN \E date \in now..MaxClock :
                  /\ now' = date
                  /\ calls' = [calls EXCEPT ![p] =
                                 SaveIssued(c, [NoUrl EXCEPT
                                                  !.originalUrl = c.normalizedUrl,
                                                  !.shortCode = shortCode,
                                                  !.createdAt = date])]
           ELSE /\ calls' = [calls EXCEPT ![p] =
                               LoopTest([c EXCEPT !.attempts = c.attempts + 1])]
                /\ UNCHANGED now
  /\ UNCHANGED <<urls, visits, served, seen, probe, health, response, localStorage>>

\* a save that checks for a record of the same locator in one transaction
\* with the insert
ShortenSaveDeduplicated(p) ==
  /\ calls[p].op = "shorten"
  /\ calls[p].pc = "save"
  /\ LET c == calls[p]
     IN  IF \/ createRejected(c.url)
            \/ \E row \in urls : row.originalUrl = c.url.originalUrl
         THEN /\ calls' = [calls EXCEPT ![p] =
                             Throw(c, handlePrismaError("P2002", "Failed to save URL"))]
              /\ UNCHANGED urls
         ELSE /\ urls' = urls \cup {created(c.url)}
              /\ calls' = [calls EXCEPT ![p] =
                             ReturnUrl(c, created(c.url))]
  /\ UNCHANGED <<visits, now, served, seen, probe, health, response, localStorage>>

ShortenSaveUpsert(p) ==
  /\ calls[p].op = "shorten"
  /\ calls[p].pc = "save"
  /\ urls' = {row \in urls : row.shortCode # calls[p].url.shortCode}
               \cup {created(calls[p].url)}
  /\ calls' = [calls EXCEPT ![p] = ReturnUrl(calls[p], created(calls[p].url))]
  /\ UNCHANGED <<visits, now, served, seen, probe, health, response, localStorage>>

ShortenSave(p) ==
  /\ calls[p].op = "shorten"
  /\ calls[p].pc = "save"
  /\ LET c == calls[p]
     IN  IF createRejected(c.url)
         THEN /\ calls' = [calls EXCEPT ![p] =
                             Throw(c, handlePrismaError("P2002", "Failed to save URL"))]
              /\ UNCHANGED urls
         ELSE /\ urls' = urls \cup {created(c.url)}
              /\ calls' = [calls EXCEPT ![p] =
                             ReturnUrl(c, created(c.url))]
  /\ UNCHANGED <<visits, now, served, seen, probe, health, response, localStorage>>

(***************************************************************************)
(* use-cases/get-original-url.ts                                           *)
(***************************************************************************)
ResolveExecute(p, shortCode, userAgent) ==
  /\ ~InFlight(calls[p])
  /\ BagCardinality(visits) < MaxVisits
  /\ calls' = [calls EXCEPT ![p] =
                 [Idle EXCEPT !.op = "resolve", !.pc = "findByShortCode",
                              !.shortCode = shortCode, !.userAgent = userAgent]]
  /\ UNCHANGED <<urls, visits, now, served, seen, probe, health, response, localStorage>>

\* execute without the await of trackVisit
ResolveFindByShortCodeNoAwait(p) ==
  /\ calls[p].op = "resolve"
  /\ calls[p].pc = "findByShortCode"
  /\ LET c == calls[p]
         url == findByShortCode(c.shortCode)
     IN  calls' = [calls EXCEPT ![p] =
                     IF url = NoUrl THEN ReturnLocation(c, Null)
                     ELSE ReturnLocation(c, url.originalUrl)]
  /\ UNCHANGED <<urls, visits, now, served, seen, probe, health, response, localStorage>>

ResolveFindByShortCode(p) ==
  /\ calls[p].op = "resolve"
  /\ calls[p].pc = "findByShortCode"
  /\ LET c == calls[p]
         url == findByShortCode(c.shortCode)
     IN  calls' = [calls EXCEPT ![p] =
                     IF url = NoUrl THEN ReturnLocation(c, Null)
                     ELSE [c EXCEPT !.pc = "trackVisit", !.url = url]]
  /\ UNCHANGED <<urls, visits, now, served, seen, probe, health, response, localStorage>>

\* a call of the analytics port itself, as the repository's tests make it
TrackVisitExecute(p, shortCode, userAgent) ==
  /\ ~InFlight(calls[p])
  /\ BagCardinality(visits) < MaxVisits
  /\ calls' = [calls EXCEPT ![p] =
                 [Idle EXCEPT !.op = "trackVisit", !.pc = "trackVisit",
                              !.shortCode = shortCode, !.userAgent = userAgent]]
  /\ UNCHANGED <<urls, visits, now, served, seen, probe, health, response, localStorage>>

\* trackVisit is over: its promise resolves to undefined, and a resolve
\* call that awaited it returns url.originalUrl
TrackVisitReturns(c) ==
  IF c.op = "resolve" THEN ReturnLocation(c, c.url.originalUrl)
  ELSE Settled(c, "returned")

\* the locators a step of trackVisit serves
Served(c, over) ==
  IF over /\ c.op = "resolve" THEN [served EXCEPT ![c.shortCode] = @ + 1]
  ELSE served

TrackVisitFindUniqueUnchecked(p) ==
  /\ calls[p].op \in {"resolve", "trackVisit"}
  /\ calls[p].pc = "trackVisit"
  /\ calls' = [calls EXCEPT ![p] =
                 [calls[p] EXCEPT !.pc = "visit.create",
                                  !.visitUrlId = findUnique(calls[p].shortCode).id]]
  /\ UNCHANGED <<urls, visits, now, served, seen, probe, health, response, localStorage>>

\* trackVisit up to its second await
TrackVisitFindUnique(p) ==
  /\ calls[p].op \in {"resolve", "trackVisit"}
  /\ calls[p].pc = "trackVisit"
  /\ LET c == calls[p]
         url == findUnique(c.shortCode)
     IN  /\ calls' = [calls EXCEPT ![p] =
                        IF url = NoUrl
                        THEN TrackVisitReturns(c)
                        ELSE [c EXCEPT !.pc = "visit.create",
                                       !.visitUrlId = url.id]]
         /\ served' = Served(c, url = NoUrl)
  /\ UNCHANGED <<urls, visits, now, seen, probe, health, response, localStorage>>

\* the rest of trackVisit, and the return of execute
TrackVisitCreate(p) ==
  /\ calls[p].op \in {"resolve", "trackVisit"}
  /\ calls[p].pc = "visit.create"
  /\ visits' = visitCreate(calls[p].visitUrlId, calls[p].userAgent)
  /\ calls' = [calls EXCEPT ![p] = TrackVisitReturns(calls[p])]
  /\ served' = Served(calls[p], TRUE)
  /\ UNCHANGED <<urls, now, seen, probe, health, response, localStorage>>

\* a call of getVisits
GetVisitsExecute(p, shortCode) ==
  /\ ~InFlight(calls[p])
  /\ calls' = [calls EXCEPT ![p] =
                 [Idle EXCEPT !.op = "getVisits", !.pc = "getVisits",
                              !.shortCode = shortCode]]
  /\ UNCHANGED <<urls, visits, now, served, seen, probe, health, response, localStorage>>

\* return url?._count.visits ?? 0
GetVisitsFindUnique(p) ==
  /\ calls[p].op = "getVisits"
  /\ calls[p].pc = "getVisits"
  /\ calls' = [calls EXCEPT ![p] =
                 [Settled(calls[p], "returned") EXCEPT
                    !.visitCount = getVisits(calls[p].shortCode)]]
  /\ UNCHANGED <<urls, visits, now, served, seen, probe, health, response, localStorage>>

(***************************************************************************)
(* Failures of the store                                                   *)
(***************************************************************************)
\* the error context of the repository method a call is waiting for
Context(c) ==
  IF c.pc = "findAll" THEN "Failed to fetch URLs"
  ELSE IF c.pc = "findByShortCode" THEN "Failed to find URL by short code"
  ELSE IF c.pc = "save" THEN "Failed to save URL"
  ELSE IF c.pc = "getVisits" THEN "Failed to get visit count"
  ELSE "Failed to track visit"

\* a failed lookup taken for an answer: a collision in the loop of shorten,
\* no record in resolve
StoreFaultSwallowed(p, fault) ==
  /\ InFlight(calls[p])
  /\ calls' = [calls EXCEPT ![p] =
                 IF calls[p].pc = "findByShortCode"
                 THEN IF calls[p].op = "shorten"
                      THEN LoopTest([calls[p] EXCEPT !.attempts = @ + 1])
                      ELSE ReturnLocation(calls[p], Null)
                 ELSE Throw(calls[p], handlePrismaError(fault, Context(calls[p])))]
  /\ UNCHANGED <<urls, visits, now, served, seen, probe, health, response, localStorage>>

\* the driver rejects the awaited operation; the use cases catch nothing
StoreFault(p, fault) ==
  /\ InFlight(calls[p])
  /\ calls' = [calls EXCEPT ![p] =
                 Throw(calls[p],
                       IF calls[p].pc \in {"trackVisit", "visit.create", "getVisits"}
                       THEN handleAnalyticsPrismaError(fault, Context(calls[p]))
                       ELSE handlePrismaError(fault, Context(calls[p])))]
  /\ UNCHANGED <<urls, visits, now, served, seen, probe, health, response, localStorage>>

(***************************************************************************)
(* applications/web/app/routes/s.$code.tsx                                 *)
(***************************************************************************)
\* request.headers.get("user-agent"): null without the header
UserAgentHeaders == {"null", "", "Mozilla"}

\* getErrorMessage of an ApplicationError: its message
getErrorMessage(error) == <<error.context, error.detail>>

\* getStatusCode: the statusCode the constructors of errors.ts set
getStatusCode(error) ==
  IF isDatabaseError(error) THEN "503" ELSE "500"

\* the loader awaits execute
PendingResponse == [NoResponse EXCEPT !.status = "pending"]

\* const url = await getOriginalUrlUseCase.execute(code, header || undefined)
LoaderExecute(p, code, header) ==
  /\ ~InFlight(calls[p])
  /\ response.status # "pending"
  /\ BagCardinality(visits) < MaxVisits
  /\ calls' = [calls EXCEPT ![p] =
                 [Idle EXCEPT !.op = "resolve", !.pc = "findByShortCode",
                              !.shortCode = code,
                              !.userAgent = IF header \in {"null", ""}
                                            THEN "none" ELSE header]]
  /\ response' = PendingResponse
  /\ UNCHANGED <<urls, visits, now, served, seen, probe, health, localStorage>>

\* a loader that answers a failure with the status the error carries
LoaderResponseByStatusCode(c) ==
  IF Returned(c) /\ c.location # Null
  THEN [status |-> "302", location |-> c.location, body |-> <<>>]
  ELSE IF Returned(c)
  THEN [status |-> "404", location |-> Null, body |-> <<"Short URL not found">>]
  ELSE [status |-> getStatusCode(c.error), location |-> Null,
        body |-> getErrorMessage(c.error)]

\* the rest of the loader: redirect(url), or the Response it throws
LoaderResponse(c) ==
  IF Returned(c) /\ c.location # Null
  THEN [status |-> "302", location |-> c.location, body |-> <<>>]
  ELSE IF Returned(c)
  THEN [status |-> "404", location |-> Null, body |-> <<"Short URL not found">>]
  ELSE IF isDatabaseError(c.error)
  THEN IF getErrorCode(c.error) = "DATABASE_CONNECTION_ERROR"
       THEN [status |-> "503", location |-> Null,
             body |-> <<"Database is currently unavailable. Please try again later.">>]
       ELSE IF getErrorCode(c.error) = "DATABASE_TIMEOUT_ERROR"
       THEN [status |-> "504", location |-> Null,
             body |-> <<"Request timed out. Please try again.">>]
       ELSE [status |-> "500", location |-> Null,
             body |-> getErrorMessage(c.error)]
  ELSE [status |-> "500", location |-> Null,
        body |-> <<"An error occurred while processing your request">>]

LoaderResponds(p) ==
  /\ response.status = "pending"
  /\ calls[p].op = "resolve"
  /\ ~InFlight(calls[p])
  /\ response' = LoaderResponse(calls[p])
  /\ UNCHANGED <<urls, visits, now, calls, served, seen, probe, health, localStorage>>

(***************************************************************************)
(* applications/web/app/routes/_index.tsx                                  *)
(***************************************************************************)
\* codes.slice(0, 50)
StorageLimit == 50

\* the short codes the page adds, numbered in the order of their creation
ShortCodeNumbers == 1..MaxShortCode

\* stored ? JSON.parse(stored) : []
getStoredShortCodes == IF localStorage.stored THEN localStorage.codes ELSE <<>>

\* Array.prototype.slice(0, end)
slice(codes, end) == SubSeq(codes, 1, IF Len(codes) < end THEN Len(codes) ELSE end)

\* Array.prototype.includes
Includes(codes, shortCode) == \E i \in 1..Len(codes) : codes[i] = shortCode

\* a list that keeps the oldest codes
addShortCodePushed(shortCode) ==
  LET codes == getStoredShortCodes
  IN  IF ~Includes(codes, shortCode)
      THEN [stored |-> TRUE,
            codes |-> slice(Append(codes, shortCode), StorageLimit)]
      ELSE localStorage

\* localStorage after addShortCode(shortCode)
addShortCode(shortCode) ==
  LET codes == getStoredShortCodes
  IN  IF ~Includes(codes, shortCode)
      THEN [stored |-> TRUE,
            codes |-> slice(<<shortCode>> \o codes, StorageLimit)]
      ELSE localStorage

\* the page adds the short code of the action's answer
AddShortCode(shortCode) ==
  /\ localStorage' = addShortCode(shortCode)
  /\ probe' = [added |-> shortCode]
  /\ UNCHANGED <<urls, visits, now, calls, served, seen, health, response>>

(***************************************************************************)
(* adapters/database-health.ts                                             *)
(***************************************************************************)
\* String.prototype.toLowerCase on the words of the messages below
LowerCase ==
  ("Connection" :> "connection") @@ ("ECONNREFUSED" :> "econnrefused")
    @@ ("ETIMEDOUT" :> "etimedout") @@ ("ENOTFOUND" :> "enotfound")
    @@ ("Can't" :> "can't") @@ ("Prisma" :> "prisma") @@ ("Client" :> "client")
    @@ ("Query" :> "query")

toLowerCase(message) ==
  [i \in 1..Len(message) |->
     IF message[i] \in DOMAIN LowerCase THEN LowerCase[message[i]]
     ELSE message[i]]

ConnectionPatterns ==
  { <<"connection">>, <<"econnrefused">>, <<"etimedout">>, <<"enotfound">>,
    <<"can't", SP, "reach", SP, "database">>, <<"database", SP, "server">>,
    <<"prisma", SP, "client">> }

\* what $queryRaw can reject with: Error objects with a message, and a value
\* that is not an Error
QueryRejections ==
  { [isError |-> TRUE, message |-> message] :
      message \in { <<"Connection", SP, "refused">>,
                    <<"ECONNREFUSED">>,
                    <<"ETIMEDOUT">>,
                    <<"getaddrinfo", SP, "ENOTFOUND", SP, "db">>,
                    <<"Can't", SP, "reach", SP, "database", SP, "server">>,
                    <<"Prisma", SP, "Client", SP, "not", SP, "generated">>,
                    <<"Query", SP, "timeout">>,
                    <<"syntax", SP, "error">> } }
    \cup {[isError |-> FALSE, message |-> <<>>]}

isPrismaConnectionError(error) ==
  IF ~error.isError THEN FALSE
  ELSE \E pattern \in ConnectionPatterns :
         includes(toLowerCase(error.message), pattern)

Timeouts == {"100", "5000"}

HealthTimeoutError(timeoutMs) ==
  [name |-> "DatabaseTimeoutError",
   context |-> <<"Database health check timed out after ", timeoutMs, "ms">>,
   detail |-> ""]

HealthConnectionError ==
  [name |-> "DatabaseConnectionError",
   context |-> "Database is not accessible. Please ensure the database is running.",
   detail |-> ""]

HealthError ==
  [name |-> "DatabaseError", context |-> "Database health check failed",
   detail |-> ""]

\* the promise of $queryRaw: its state and, once rejected, the reason
QueryPromise(state, reason) ==
  [state |-> state, isError |-> reason.isError, message |-> reason.message]

NoReason == [isError |-> FALSE, message |-> <<>>]

\* no call of the health check has been made
HealthIdle ==
  [op |-> "none", pc |-> "idle", timeoutMs |-> "none",
   query |-> QueryPromise("none", NoReason),
   settled |-> <<>>, result |-> "none", error |-> NoError]

\* check up to the await of Promise.race: the timer is set and the query sent
HealthStart(op, timeoutMs) ==
  [HealthIdle EXCEPT !.op = op, !.pc = "race", !.timeoutMs = timeoutMs,
                     !.query = QueryPromise("pending", NoReason)]

CheckExecute(timeoutMs) ==
  /\ health.pc # "race"
  /\ health' = HealthStart("check", timeoutMs)
  /\ UNCHANGED <<urls, visits, now, calls, served, seen, probe, response, localStorage>>

IsHealthyExecute(timeoutMs) ==
  /\ health.pc # "race"
  /\ health' = HealthStart("isHealthy", timeoutMs)
  /\ UNCHANGED <<urls, visits, now, calls, served, seen, probe, response, localStorage>>

\* the promise of $queryRaw resolves
QueryResolves ==
  /\ health.query.state = "pending"
  /\ health' = [health EXCEPT !.query = QueryPromise("resolved", NoReason),
                              !.settled = Append(@, "query")]
  /\ UNCHANGED <<urls, visits, now, calls, served, seen, probe, response, localStorage>>

\* the promise of $queryRaw rejects
QueryRejects(error) ==
  /\ health.query.state = "pending"
  /\ health' = [health EXCEPT !.query = QueryPromise("rejected", error),
                              !.settled = Append(@, "query")]
  /\ UNCHANGED <<urls, visits, now, calls, served, seen, probe, response, localStorage>>

\* the callback of setTimeout runs: timeoutPromise rejects.  The timer is
\* never cleared, so it also runs after the call is over
TimerFires ==
  /\ health.op # "none"
  /\ \A i \in 1..Len(health.settled) : health.settled[i] # "timer"
  /\ health' = [health EXCEPT !.settled = Append(@, "timer")]
  /\ UNCHANGED <<urls, visits, now, calls, served, seen, probe, response, localStorage>>

\* a race that is decided again by every promise that settles
RaceRejectedByLast(h) ==
  h.settled[Len(h.settled)] = "timer" \/ h.query.state # "resolved"

\* Promise.race settles as the first of its promises that settled
RaceRejected(h) == Head(h.settled) = "timer" \/ h.query.state # "resolved"

\* the error the catch block of check throws
CheckError(h) ==
  IF Head(h.settled) = "timer" THEN HealthTimeoutError(h.timeoutMs)
  ELSE IF isPrismaConnectionError(h.query) THEN HealthConnectionError
  ELSE HealthError

\* isHealthy answers false whatever check threw
IsHealthyRethrows(h) ==
  IF RaceRejected(h)
  THEN [h EXCEPT !.pc = "threw", !.error = CheckError(h)]
  ELSE [h EXCEPT !.pc = "returned", !.result = "true"]

\* try { await this.check(timeoutMs); return true } catch { return false }
IsHealthyReturns(h) ==
  [h EXCEPT !.pc = "returned",
            !.result = IF RaceRejected(h) THEN "false" ELSE "true"]

\* check after the await: return true, or the catch block
CheckReturns(h) ==
  IF RaceRejected(h)
  THEN [h EXCEPT !.pc = "threw", !.error = CheckError(h)]
  ELSE [h EXCEPT !.pc = "returned", !.result = "true"]

\* the continuation of the await of Promise.race
HealthContinues ==
  /\ health.pc = "race"
  /\ health.settled # <<>>
  /\ health' = IF health.op = "check" THEN CheckReturns(health)
               ELSE IsHealthyReturns(health)
  /\ UNCHANGED <<urls, visits, now, calls, served, seen, probe, response, localStorage>>

(***************************************************************************)
(* Specifications                                                          *)
(***************************************************************************)
Locator(path) == <<"https:", "/", "/", "example", ".", "com">> \o path

\* what the sequential caller shortens: equivalent locators, a distinct
\* one, and two strings validation rejects
ShortenInputs ==
  { Locator(<<"/", "a">>),
    Locator(<<"/", "a", "/">>),
    Locator(<<"/", "a", "/", "/">>),
    Locator(<<>>),
    <<"http:", "/", "/", "example", ".", "com">>,
    <<>> }

\* what callers that also resolve shorten
Locators ==
  { Locator(<<"/", "a">>),
    Locator(<<"/", "a", "/", "/">>) }

Init ==
  /\ urls = {}
  /\ visits = EmptyBag
  /\ now = 0
  /\ calls = [p \in Procs |-> Idle]
  /\ served = [code \in generateShortCode |-> 0]
  /\ seen = Idle
  /\ probe = NotProbed
  /\ health = HealthIdle
  /\ response = NoResponse
  /\ localStorage = NoItem

Next ==
  \/ \E p \in Procs, originalUrl \in Locators : ShortenExecute(p, originalUrl)
  \/ \E p \in Procs : ShortenFindAll(p)
  \/ \E p \in Procs : ShortenFindByShortCode(p)
  \/ \E p \in Procs : ShortenSave(p)
  \/ \E p \in Procs, shortCode \in generateShortCode, userAgent \in UserAgents :
       ResolveExecute(p, shortCode, userAgent)
  \/ \E p \in Procs : ResolveFindByShortCode(p)
  \/ \E p \in Procs : TrackVisitFindUnique(p)
  \/ \E p \in Procs : TrackVisitCreate(p)
  \/ \E p \in Procs, fault \in DriverFaults : StoreFault(p, fault)

\* callers overlap freely
Spec == Init /\ [][Next]_vars

\* one caller, whose calls follow one another
Caller == CHOOSE p \in Procs : \A q \in Procs : p <= q

\* the caller keeps a record a shorten call returned
Remember ==
  /\ seen = Idle
  /\ calls[Caller].op = "shorten"
  /\ Returned(calls[Caller])
  /\ seen' = calls[Caller]
  /\ UNCHANGED <<urls, visits, now, calls, served, probe, health, response, localStorage>>

SeqNext ==
  \/ \E originalUrl \in Locators : ShortenExecute(Caller, originalUrl)
  \/ ShortenFindAll(Caller)
  \/ ShortenFindByShortCode(Caller)
  \/ ShortenSave(Caller)
  \/ \E shortCode \in generateShortCode, userAgent \in UserAgents :
       ResolveExecute(Caller, shortCode, userAgent)
  \/ ResolveFindByShortCode(Caller)
  \/ TrackVisitFindUnique(Caller)
  \/ TrackVisitCreate(Caller)
  \/ \E fault \in DriverFaults : StoreFault(Caller, fault)
  \/ Remember

SeqSpec == Init /\ [][SeqNext]_vars

\* one caller that only shortens
ShortenNext ==
  \/ \E originalUrl \in ShortenInputs : ShortenExecute(Caller, originalUrl)
  \/ ShortenFindAll(Caller)
  \/ ShortenFindByShortCode(Caller)
  \/ ShortenSave(Caller)
  \/ \E fault \in DriverFaults : StoreFault(Caller, fault)
  \/ Remember

ShortenSpec == Init /\ [][ShortenNext]_vars

\* the trailing-slash scenario: locators that validation accepts, with a
\* path that is not the root and does not end in a slash
PairLocators ==
  { <<"https:", "/", "/">> \o host \o port \o path \o query \o fragment :
      host \in {<<"example", ".", "com">>, <<"a", ".", "example", ".", "com">>},
      port \in OptionalPorts,
      path \in {<<"/", "a">>, <<"/", "a", "/", "a">>},
      query \in Queries, fragment \in Fragments }

\* an empty store and a locator the caller is going to shorten
PairInit ==
  /\ urls = {}
  /\ visits = EmptyBag
  /\ now = 0
  /\ calls = [p \in Procs |-> Idle]
  /\ served = [code \in generateShortCode |-> 0]
  /\ seen = Idle
  /\ \E raw \in PairLocators : probe = [NotProbed EXCEPT !.raw = raw]
  /\ health = HealthIdle
  /\ response = NoResponse
  /\ localStorage = NoItem

\* the caller shortens the locator and the locator followed by a slash, one
\* call after the other, in any order and any number of times
PairNext ==
  \/ ShortenExecute(Caller, probe.raw)
  \/ ShortenExecute(Caller, probe.raw \o <<"/">>)
  \/ ShortenFindAll(Caller)
  \/ ShortenFindByShortCode(Caller)
  \/ ShortenSave(Caller)
  \/ Remember

PairSpec == PairInit /\ [][PairNext]_vars

\* one client: it shortens, and it requests /s/:code
LoaderNext ==
  \/ /\ response.status # "pending"
     /\ \E originalUrl \in Locators : ShortenExecute(Caller, originalUrl)
  \/ ShortenFindAll(Caller)
  \/ ShortenFindByShortCode(Caller)
  \/ ShortenSave(Caller)
  \/ \E code \in generateShortCode, header \in UserAgentHeaders :
       LoaderExecute(Caller, code, header)
  \/ ResolveFindByShortCode(Caller)
  \/ TrackVisitFindUnique(Caller)
  \/ TrackVisitCreate(Caller)
  \/ \E fault \in DriverFaults \cup {"P2024"} : StoreFault(Caller, fault)
  \/ LoaderResponds(Caller)

LoaderSpec == Init /\ [][LoaderNext]_vars

\* an empty browser store, and no code added yet
StorageInit ==
  /\ urls = {}
  /\ visits = EmptyBag
  /\ now = 0
  /\ calls = [p \in Procs |-> Idle]
  /\ served = [code \in generateShortCode |-> 0]
  /\ seen = Idle
  /\ probe = [added |-> 0]
  /\ health = HealthIdle
  /\ response = NoResponse
  /\ localStorage = NoItem

\* the codes the page adds next: one that is stored, or the code created
\* after the newest stored one; the first code added is one of the first
\* three
NextShortCodes ==
  LET codes == getStoredShortCodes
  IN  IF codes = <<>> THEN {number \in ShortCodeNumbers : number <= 3}
      ELSE {codes[i] : i \in 1..Len(codes)}
             \cup {number \in ShortCodeNumbers : number = codes[1] + 1}

StorageNext == \E shortCode \in NextShortCodes : AddShortCode(shortCode)

StorageSpec == StorageInit /\ [][StorageNext]_vars

\* a repository method whose driver call is rejected
RepositoryRejects ==
  /\ probe.thrown = NoError
  /\ probe' = [probe EXCEPT !.thrown = RepositoryCatch(probe.operation, probe.fault)]
  /\ UNCHANGED <<urls, visits, now, calls, served, seen, health, response, localStorage>>

\* one call of a repository method, and the error the driver rejects it with
AdapterInit ==
  /\ urls = {}
  /\ visits = EmptyBag
  /\ now = 0
  /\ calls = [p \in Procs |-> Idle]
  /\ served = [code \in generateShortCode |-> 0]
  /\ seen = Idle
  /\ probe \in [operation : RepositoryOperations, fault : DriverErrors,
                 thrown : {NoError}]
  /\ health = HealthIdle
  /\ response = NoResponse
  /\ localStorage = NoItem

AdapterNext == RepositoryRejects

AdapterSpec == AdapterInit /\ [][AdapterNext]_vars

\* calls of the health check, one after the other, with the query and the
\* timer of the call settling in either order and at any time
HealthNext ==
  \/ \E timeoutMs \in Timeouts : CheckExecute(timeoutMs)
  \/ \E timeoutMs \in Timeouts : IsHealthyExecute(timeoutMs)
  \/ QueryResolves
  \/ \E error \in QueryRejections : QueryRejects(error)
  \/ TimerFires
  \/ HealthContinues

HealthSpec == Init /\ [][HealthNext]_vars

\* one caller of shorten and of the analytics port
AnalyticsNext ==
  \/ \E originalUrl \in Locators : ShortenExecute(Caller, originalUrl)
  \/ ShortenFindAll(Caller)
  \/ ShortenFindByShortCode(Caller)
  \/ ShortenSave(Caller)
  \/ \E shortCode \in generateShortCode, userAgent \in UserAgents :
       TrackVisitExecute(Caller, shortCode, userAgent)
  \/ TrackVisitFindUnique(Caller)
  \/ TrackVisitCreate(Caller)
  \/ \E shortCode \in generateShortCode : GetVisitsExecute(Caller, shortCode)
  \/ GetVisitsFindUnique(Caller)
  \/ \E fault \in DriverFaults : StoreFault(Caller, fault)

AnalyticsSpec == Init /\ [][AnalyticsNext]_vars

\* Promise.all(urls.map(url => useCase.execute(url))): every caller has
\* started a shorten call, each for a locator of its own, before any store
\* call returns
RECURSIVE Segments(_)
Segments(k) == IF k = 0 THEN <<>> ELSE <<"/", "a">> \o Segments(k - 1)

BurstInputs == {Locator(Segments(k)) : k \in 0..NumProcs}

BurstInit ==
  /\ urls = {}
  /\ visits = EmptyBag
  /\ now = 0
  /\ calls \in {burst \in [Procs -> {ShortenStart(originalUrl) :
                                        originalUrl \in BurstInputs}] :
                  \A p, q \in Procs : p # q => burst[p] # burst[q]}
  /\ served = [code \in generateShortCode |-> 0]
  /\ seen = Idle
  /\ probe = NotProbed
  /\ health = HealthIdle
  /\ response = NoResponse
  /\ localStorage = NoItem

BurstNext ==
  \/ \E p \in Procs : ShortenFindAll(p)
  \/ \E p \in Procs : ShortenFindByShortCode(p)
  \/ \E p \in Procs : ShortenSave(p)

BurstSpec == BurstInit /\ [][BurstNext]_vars

(***************************************************************************)
(* validateUrl and normalizeUrl applied to one string                      *)
(***************************************************************************)
Validate ==
  /\ probe.validation = "pending"
  /\ probe' = [probe EXCEPT !.validation = validateUrl(probe.raw)]
  /\ UNCHANGED <<urls, visits, now, calls, served, seen, health, response, localStorage>>

Normalize ==
  /\ probe.normalized = <<"pending">>
  /\ probe' = [probe EXCEPT !.normalized =
                  IF normalizeUrlThrows(probe.raw) THEN <<"TypeError">>
                  ELSE normalizeUrl(probe.raw)]
  /\ UNCHANGED <<urls, visits, now, calls, served, seen, health, response, localStorage>>

Renormalize ==
  /\ probe.normalized \notin {<<"pending">>, <<"TypeError">>}
  /\ probe.renormalized = <<"pending">>
  /\ probe' = [probe EXCEPT !.renormalized =
                  IF normalizeUrlThrows(probe.normalized) THEN <<"TypeError">>
                  ELSE normalizeUrl(probe.normalized)]
  /\ UNCHANGED <<urls, visits, now, calls, served, seen, health, response, localStorage>>

PureInit ==
  /\ urls = {}
  /\ visits = EmptyBag
  /\ now = 0
  /\ calls = [p \in Procs |-> Idle]
  /\ served = [code \in generateShortCode |-> 0]
  /\ seen = Idle
  /\ probe \in {[NotProbed EXCEPT !.raw = raw] : raw \in RawInputs}
  /\ health = HealthIdle
  /\ response = NoResponse
  /\ localStorage = NoItem

PureNext == Validate \/ Normalize \/ Renormalize

PureSpec == PureInit /\ [][PureNext]_vars

(***************************************************************************)
(* validateUrlFormat applied to one string of the form                     *)
(***************************************************************************)
FormatInit ==
  /\ urls = {}
  /\ visits = EmptyBag
  /\ now = 0
  /\ calls = [p \in Procs |-> Idle]
  /\ served = [code \in generateShortCode |-> 0]
  /\ seen = Idle
  /\ probe \in {[url |-> url, result |-> NotValidated] : url \in FormatInputs}
  /\ health = HealthIdle
  /\ response = NoResponse
  /\ localStorage = NoItem

ValidateFormat ==
  /\ probe.result = NotValidated
  /\ probe' = [probe EXCEPT !.result = validateUrlFormat(probe.url)]
  /\ UNCHANGED <<urls, visits, now, calls, served, seen, health, response, localStorage>>

FormatNext == ValidateFormat

FormatSpec == FormatInit /\ [][FormatNext]_vars

(***************************************************************************)
(* Properties of validateUrl and normalizeUrl (PureSpec)                   *)
(***************************************************************************)
Str(lead, scheme, host, path) == lead \o <<scheme, "/", "/">> \o host \o path

\* C2: normalize is idempotent: normalizing the normalized form of an input
\* gives the normalized form again, multi-slash paths included.  Stated for
\* the inputs validateUrl accepts, which are the ones execute normalizes
C2_NormalizeIdempotent ==
  (validateUrl(probe.raw) = Valid /\ probe.renormalized # <<"pending">>)
    => probe.renormalized = probe.normalized

\* the kinds whose rule the input breaks; the rules on the parts of a URL
\* apply to an input that parses
Violated(raw) ==
  LET parsedUrl == URLParse(trim(raw))
  IN  {kind \in ValidationErrors :
         \/ kind = Empty /\ trim(raw) = <<>>
         \/ kind = Malformed /\ ~parsedUrl.ok
         \/ /\ parsedUrl.ok
            /\ \/ kind = ProtocolNotAllowed /\ parsedUrl.protocol # "https:"
               \/ kind = MissingHost /\ parsedUrl.hostname = <<>>
               \/ kind = PrivateOrLocalHost /\ IsLocalOrPrivate(parsedUrl.hostname)}

\* the place of a kind in the documented order
RuleOrder(kind) ==
  CASE kind = Empty -> 1
    [] kind = Malformed -> 2
    [] kind = ProtocolNotAllowed -> 3
    [] kind = MissingHost -> 4
    [] kind = PrivateOrLocalHost -> 5

\* the verdicts the documentation gives by example
Documented ==
  {<< <<>>, Empty >>,
   << <<SP>>, Empty >>,
   << <<SP, SP>>, Empty >>,
   << <<"not", SP, "a", SP, "url">>, Malformed >>,
   << Str(<<>>, "http:", <<"example", ".", "com">>, <<>>), ProtocolNotAllowed >>,
   << Str(<<>>, "https:", <<"localhost">>, <<>>), PrivateOrLocalHost >>,
   << Str(<<>>, "https:", <<"192", ".", "168", ".", "1", ".", "1">>, <<>>),
      PrivateOrLocalHost >>,
   << Str(<<>>, "http:", <<"localhost">>, <<>>), ProtocolNotAllowed >>}

\* C7: validation fails with the kind of the first rule, in the order Empty,
\* Malformed, ProtocolNotAllowed, MissingHost, PrivateOrLocalHost, that the
\* input breaks, succeeds when it breaks none, and gives the documented
\* verdict on each documented example
C7_FirstFailureWins ==
  probe.validation # "pending" =>
    /\ (probe.validation = Valid) <=> (Violated(probe.raw) = {})
    /\ probe.validation # Valid =>
         /\ probe.validation \in Violated(probe.raw)
         /\ \A kind \in Violated(probe.raw) :
              RuleOrder(probe.validation) <= RuleOrder(kind)
    /\ \A example \in Documented :
         probe.raw = example[1] => probe.validation = example[2]

\* an insecure scheme with a loopback host was rejected for its scheme
C7_Witness ==
  /\ probe.raw = Str(<<>>, "http:", <<"localhost">>, <<>>)
  /\ Violated(probe.raw) = {ProtocolNotAllowed, PrivateOrLocalHost}
  /\ probe.validation = ProtocolNotAllowed

\* the loopback name and the loopback address
IsLoopback(hostname) ==
  \/ hostname = <<"localhost">>
  \/ hostname = <<"127", ".", "0", ".", "0", ".", "1">>

\* an IPv4 address in 10.0.0.0/8 or in 192.168.0.0/16
InPrivateRange(hostname) ==
  /\ IsDottedQuad(hostname)
  /\ \/ hostname[1] = "10"
     \/ hostname[1] = "192" /\ hostname[3] = "168"

\* probe.raw is a well-formed locator with the secure scheme, and validated
SecureProbe ==
  /\ probe.validation # "pending"
  /\ URLParse(trim(probe.raw)).ok
  /\ URLParse(trim(probe.raw)).protocol = "https:"

\* C8 as stated: a well-formed https locator is accepted exactly if its host
\* is non-empty, not the loopback name or address and not an address in
\* 10.0.0.0/8 or 192.168.0.0/16
C8_AcceptedIffPublicHost ==
  SecureProbe =>
    LET hostname == URLParse(trim(probe.raw)).hostname
    IN  (probe.validation = Valid) <=>
          /\ hostname # <<>>
          /\ ~IsLoopback(hostname)
          /\ ~InPrivateRange(hostname)

\* C8 amended: a well-formed https locator is accepted exactly if its host
\* is non-empty, not the loopback name or address, does not begin with
\* "10." or "192.168." and is not a dotted quad of decimal numbers; every
\* other such locator is rejected as PrivateOrLocalHost
C8_AcceptedIffNoAddressNoPrefix ==
  SecureProbe =>
    LET hostname == URLParse(trim(probe.raw)).hostname
        accepted == /\ hostname # <<>>
                    /\ ~IsLoopback(hostname)
                    /\ ~StartsWith(hostname, <<"10", ".">>)
                    /\ ~StartsWith(hostname, <<"192", ".", "168", ".">>)
                    /\ ~IsDottedQuad(hostname)
    IN  /\ (probe.validation = Valid) <=> accepted
        /\ ~accepted => probe.validation = PrivateOrLocalHost

\* a public address was rejected as private or local
C8_Witness ==
  /\ SecureProbe
  /\ URLParse(trim(probe.raw)).hostname = <<"8", ".", "8", ".", "8", ".", "8">>
  /\ probe.validation = PrivateOrLocalHost

(***************************************************************************)
(* Properties of one caller's shorten calls (ShortenSpec)                  *)
(***************************************************************************)
\* the caller's call is a shorten call that returned a record
ShortenReturned ==
  /\ calls[Caller].op = "shorten"
  /\ Returned(calls[Caller])

\* C1: two shorten calls, one after the other, whose inputs normalize to the
\* same string return the same shortCode, and no two distinct records hold
\* locators that normalize to the same string
C1_IdempotentShortening ==
  /\ (seen # Idle /\ ShortenReturned
        /\ normalizeUrl(seen.originalUrl) = normalizeUrl(calls[Caller].originalUrl))
       => seen.url.shortCode = calls[Caller].url.shortCode
  /\ \A r1, r2 \in urls :
       normalizeUrl(r1.originalUrl) = normalizeUrl(r2.originalUrl) => r1 = r2

\* C3: two shorten calls, one after the other, whose inputs normalize to
\* different strings return records with different short codes
C3_SequentialUniqueness ==
  (seen # Idle /\ ShortenReturned
     /\ normalizeUrl(seen.originalUrl) # normalizeUrl(calls[Caller].originalUrl))
    => seen.url.shortCode # calls[Caller].url.shortCode

\* the caller's call is a shorten call whose input validateUrl rejects
ShortenOfInvalid(c) ==
  /\ c.op = "shorten"
  /\ validateUrl(c.originalUrl) # Valid

\* C9: a shorten call whose input validation rejects fails with that
\* validation error in the step that starts it: it is never at a call of
\* findAll, findByShortCode or save, and the step leaves the records as
\* they were
C9_ValidationShortCircuits ==
  /\ [](ShortenOfInvalid(calls[Caller]) =>
          /\ Threw(calls[Caller])
          /\ calls[Caller].error =
               InvalidUrlError(validateUrl(calls[Caller].originalUrl)))
  /\ [][(ShortenOfInvalid(calls'[Caller]) /\ calls'[Caller] # calls[Caller])
          => (~InFlight(calls[Caller]) /\ urls' = urls /\ visits' = visits)]_vars

\* a rejected input met a store that holds a record, and failed as Empty
C9_Witness ==
  /\ urls # {}
  /\ ShortenOfInvalid(calls[Caller])
  /\ calls[Caller].error = InvalidUrlError(Empty)

\* the caller's call failed because the loop ran out of attempts
Exhausted(c) == Threw(c) /\ c.error = GenerationFailed

\* the store calls a shorten call can still make
StoreCallsLeft(c) ==
  IF c.op # "shorten" \/ ~InFlight(c) THEN 0
  ELSE IF c.pc = "findAll" THEN 12
  ELSE IF c.pc = "findByShortCode" THEN 11 - c.attempts
  ELSE 1

\* C10: a shorten call about to look a candidate up has made fewer than 10
\* lookups; every lookup that finds the candidate taken is counted; the call
\* fails for lack of a free code exactly at its 10th lookup, all 10 having
\* found their candidate taken, without ever having been at save and
\* without changing the records; and every call in flight has a next step
\* (the scan an order of the records to go through, the lookup and the save
\* an enabled step) and fewer store calls left after it
C10_BoundedRetry ==
  /\ []((calls[Caller].op = "shorten" /\ calls[Caller].pc = "findByShortCode")
          => calls[Caller].attempts < 10)
  /\ []((calls[Caller].op = "shorten" /\ InFlight(calls[Caller]))
          => \/ calls[Caller].pc = "findAll" /\ findAll # {}
             \/ ENABLED ShortenFindByShortCode(Caller)
             \/ ENABLED ShortenSave(Caller))
  /\ [][/\ (Exhausted(calls'[Caller]) /\ ~Exhausted(calls[Caller]))
            => /\ calls[Caller].pc = "findByShortCode"
               /\ calls[Caller].attempts = 9
               /\ urls' = urls
        /\ (calls[Caller].pc = "findByShortCode"
              /\ calls'[Caller].pc = "findByShortCode")
            => calls'[Caller].attempts = calls[Caller].attempts + 1
        /\ (calls[Caller].pc = "save" /\ calls'[Caller] # calls[Caller])
            => (~InFlight(calls'[Caller]) /\ ~Exhausted(calls'[Caller]))
        /\ (InFlight(calls[Caller]) /\ calls'[Caller] # calls[Caller])
            => StoreCallsLeft(calls'[Caller]) < StoreCallsLeft(calls[Caller])]_vars

\* a call failed for lack of a free code while a code was still free
C10_Witness ==
  /\ Exhausted(calls[Caller])
  /\ \E shortCode \in generateShortCode : findByShortCode(shortCode) = NoUrl

\* C11: a shorten call that fails although its input is valid and no store
\* call failed, fails with the ShortCodeGenerationError, whose code is
\* SHORT_CODE_GENERATION_ERROR
C11_GenerationExhaustedKind ==
  (/\ calls[Caller].op = "shorten"
   /\ Threw(calls[Caller])
   /\ validateUrl(calls[Caller].originalUrl) = Valid
   /\ ~isDatabaseError(calls[Caller].error))
    => /\ calls[Caller].error.name = "ShortCodeGenerationError"
       /\ getErrorCode(calls[Caller].error) = "SHORT_CODE_GENERATION_ERROR"

\* C12: a step adds at most one record and removes or changes none, and the
\* step that adds one is the save that ends a call; a call whose scan meets
\* a stored equivalent locator ends with the scan, so it is never at
\* findByShortCode or save, leaves the records as they were and returns a
\* stored record as stored
C12_ShortenSideEffects ==
  /\ [](ShortenReturned => calls[Caller].url \in urls)
  /\ [][/\ urls \subseteq urls'
        /\ Cardinality(urls') <= Cardinality(urls) + 1
        /\ urls' # urls
            => (calls[Caller].pc = "save" /\ ~InFlight(calls'[Caller]))
        /\ (/\ calls[Caller].pc = "findAll"
            /\ calls'[Caller] # calls[Caller]
            /\ \E url \in urls : IsExisting(url, calls[Caller].normalizedUrl))
            => /\ ~InFlight(calls'[Caller])
               /\ urls' = urls
               /\ Returned(calls'[Caller])
                   => /\ calls'[Caller].url \in urls
                      /\ IsExisting(calls'[Caller].url, calls[Caller].normalizedUrl)]_vars

\* a call was answered by the scan with a record stored for another input
C12_Witness ==
  /\ ShortenReturned
  /\ calls[Caller].url \in urls
  /\ calls[Caller].url.originalUrl # normalizeUrl(calls[Caller].originalUrl)

\* the symbols 0-9, A-Z, a-z
AlphabetSymbols == {alphabet[i] : i \in 1..Len(alphabet)}

C23_FindAllOrderIrrelevant ==
  (calls[Caller].op = "shorten" /\ calls[Caller].pc = "findAll")
    => \A allUrls, reordered \in findAll :
         Find(allUrls, calls[Caller].normalizedUrl, 1)
           = Find(reordered, calls[Caller].normalizedUrl, 1)

(***************************************************************************)
(* Properties of one caller's shorten and resolve calls (SeqSpec)          *)
(***************************************************************************)
\* C5: resolving the shortCode of the record that shorten returned for L
\* returns normalize(L), also when the record was found by the scan
C5_RoundTrip ==
  (/\ seen # Idle
   /\ calls[Caller].op = "resolve"
   /\ Returned(calls[Caller])
   /\ calls[Caller].shortCode = seen.url.shortCode)
    => calls[Caller].location = normalizeUrl(seen.originalUrl)

\* the caller's call is a resolve call that ends with this step by returning
ResolveReturns ==
  /\ calls[Caller].op = "resolve"
  /\ InFlight(calls[Caller])
  /\ Returned(calls'[Caller])

\* the Visit row of a resolve call for a record
VisitOf(url, userAgent) ==
  [urlId |-> url.id,
   userAgent |-> IF userAgent = "none" THEN "null" ELSE userAgent]

\* C15: a resolve call returns null only for a code without a record, and
\* then adds no visit; its lookup of a code without a record ends the call
\* with null unless the store call fails; a call that returns a locator
\* returns the one stored under the code and has added exactly one visit
\* for that record, with the user agent it was given
C15_ResolveAbsentOrVisited ==
  [][/\ (ResolveReturns /\ calls'[Caller].location = Null)
         => /\ findByShortCode(calls[Caller].shortCode) = NoUrl
            /\ visits' = visits
     /\ (/\ calls[Caller].op = "resolve"
         /\ calls[Caller].pc = "findByShortCode"
         /\ calls'[Caller] # calls[Caller]
         /\ findByShortCode(calls[Caller].shortCode) = NoUrl)
         => \/ ResolveReturns /\ calls'[Caller].location = Null
            \/ Threw(calls'[Caller]) /\ isDatabaseError(calls'[Caller].error)
     /\ (ResolveReturns /\ calls'[Caller].location # Null)
         => LET url == findByShortCode(calls[Caller].shortCode)
            IN  /\ url # NoUrl
                /\ calls'[Caller].location = url.originalUrl
                /\ visits' = visits (+)
                     SetToBag({VisitOf(url, calls[Caller].userAgent)})]_vars

\* a resolve call with a user agent returned the locator of a record and
\* the visit of that user agent is stored
C15_Witness ==
  /\ calls[Caller].op = "resolve"
  /\ Returned(calls[Caller])
  /\ calls[Caller].userAgent = "Mozilla"
  /\ findByShortCode(calls[Caller].shortCode) # NoUrl
  /\ calls[Caller].location = findByShortCode(calls[Caller].shortCode).originalUrl
  /\ BagIn(VisitOf(findByShortCode(calls[Caller].shortCode), "Mozilla"), visits)

\* the caller's resolve call is inside trackVisit
InTrackVisit ==
  /\ calls[Caller].op = "resolve"
  /\ calls[Caller].pc \in {"trackVisit", "visit.create"}

\* C16: a resolve call returns a locator only with the step that completes
\* trackVisit, the insert of the Visit row; a resolve call whose trackVisit
\* fails throws the error trackVisit threw, returns no locator and stores
\* no visit
C16_VisitBeforeReturn ==
  [][/\ (ResolveReturns /\ calls'[Caller].location # Null)
         => /\ calls[Caller].pc = "visit.create"
            /\ BagCardinality(visits') = BagCardinality(visits) + 1
     /\ (InTrackVisit /\ calls'[Caller] # calls[Caller])
         => \/ calls'[Caller].op = "resolve" /\ InFlight(calls'[Caller])
            \/ ResolveReturns
            \/ /\ Threw(calls'[Caller])
               /\ calls'[Caller].location = Null
               /\ visits' = visits
               /\ \E fault \in DriverFaults :
                    calls'[Caller].error =
                      handleAnalyticsPrismaError(fault, "Failed to track visit")]_vars

\* a resolve call for a stored code failed in trackVisit: it threw the
\* timeout error of trackVisit, has no locator, and the code has no visit
C16_Witness ==
  /\ calls[Caller].op = "resolve"
  /\ Threw(calls[Caller])
  /\ calls[Caller].error =
       handleAnalyticsPrismaError("timeout", "Failed to track visit")
  /\ calls[Caller].location = Null
  /\ findByShortCode(calls[Caller].shortCode) # NoUrl
  /\ getVisits(calls[Caller].shortCode) = 0

\* the caller's call ends with this step by throwing a database error
StoreFailure ==
  /\ InFlight(calls[Caller])
  /\ Threw(calls'[Caller])
  /\ isDatabaseError(calls'[Caller].error)

\* C17: a call that fails with a database error fails with the error of
\* the store call it was waiting for and is over, with the records and the
\* visits as they were; the loop of shorten counts an attempt only when a
\* lookup found a record under the candidate; a resolve call returns null
\* only when its lookup found no record
C17_StoreFailuresNotRetried ==
  [][/\ StoreFailure
         => /\ ~InFlight(calls'[Caller])
            /\ urls' = urls
            /\ visits' = visits
            /\ \E fault \in DriverFaults \cup {"P2002"} :
                 calls'[Caller].error \in
                   {handlePrismaError(fault, Context(calls[Caller])),
                    handleAnalyticsPrismaError(fault, Context(calls[Caller]))}
     /\ (/\ calls[Caller].pc = "findByShortCode"
         /\ calls'[Caller].attempts = calls[Caller].attempts + 1)
         => \E shortCode \in generateShortCode :
              findByShortCode(shortCode) # NoUrl
     /\ (ResolveReturns /\ calls'[Caller].location = Null)
         => /\ calls[Caller].pc = "findByShortCode"
            /\ findUnique(calls[Caller].shortCode) = NoUrl]_vars

\* a shorten call failed on its lookup of a candidate in an empty store:
\* it threw the connection error of findByShortCode and nothing was saved
C17_Witness ==
  /\ calls[Caller].op = "shorten"
  /\ Threw(calls[Caller])
  /\ calls[Caller].error =
       handlePrismaError("PrismaClientInitializationError",
                         "Failed to find URL by short code")
  /\ urls = {}

(***************************************************************************)
(* Properties of the repositories' error mapping (AdapterSpec)             *)
(***************************************************************************)
\* the class of error the mapping is to give a driver error
MappedName(fault) ==
  IF fault = "PrismaClientInitializationError" THEN "DatabaseConnectionError"
  ELSE IF includes(FaultMessage(fault), <<"timeout">>) THEN "DatabaseTimeoutError"
  ELSE "DatabaseError"

\* C27: the error a repository method throws when its driver call is
\* rejected is a DatabaseError whose message starts with the context of the
\* method: DatabaseConnectionError for an initialization error,
\* DatabaseTimeoutError for an error whose message contains "timeout",
\* DatabaseError itself for every other
C27_AdapterErrorMapping ==
  probe.thrown # NoError
    => /\ isDatabaseError(probe.thrown)
       /\ probe.thrown.context = OperationContext(probe.operation)
       /\ probe.thrown.name = MappedName(probe.fault)

(***************************************************************************)
(* Properties of the redirect route (LoaderSpec)                           *)
(***************************************************************************)
\* the loader answers with this step
Answers == response.status = "pending" /\ response'.status # "pending"

\* C28: the loader answers a request once the resolve call is over: with a
\* redirect to the locator if the call returned one, with 404 if it
\* returned null, with 503 if it threw DatabaseConnectionError, with 504 if
\* it threw DatabaseTimeoutError and with 500 if it threw anything else;
\* only the first of these answers is a redirect
C28_RedirectRouteOutcome ==
  [][Answers =>
       LET c == calls[Caller]
       IN  /\ c.op = "resolve"
           /\ ~InFlight(c)
           /\ calls' = calls
           /\ response'.status =
                IF Returned(c) /\ c.location # Null THEN "302"
                ELSE IF Returned(c) THEN "404"
                ELSE IF c.error.name = "DatabaseConnectionError" THEN "503"
                ELSE IF c.error.name = "DatabaseTimeoutError" THEN "504"
                ELSE "500"
           /\ response'.location =
                IF Returned(c) /\ c.location # Null THEN c.location ELSE Null
           /\ response'.location # Null => getVisits(c.shortCode) > 0]_vars

\* the loader answered 504: the resolve call found the record and failed
\* in trackVisit with a timeout
C28_Witness ==
  /\ response.status = "504"
  /\ response.location = Null
  /\ calls[Caller].op = "resolve"
  /\ calls[Caller].error =
       handleAnalyticsPrismaError("timeout", "Failed to track visit")
  /\ findByShortCode(calls[Caller].shortCode) # NoUrl

(***************************************************************************)
(* Properties of the list of recent links (StorageSpec)                    *)
(***************************************************************************)
\* C29: the stored list has no code twice and at most 50 codes; a call of
\* addShortCode with a code of the list leaves the list as it was; a call
\* with another code puts that code first, keeps the codes that were
\* stored in their order behind it, and drops from the end, where the
\* oldest are, what does not fit into 50
C29_RecentLinksList ==
  /\ [](LET codes == getStoredShortCodes
        IN  /\ Len(codes) <= 50
            /\ \A i, j \in 1..Len(codes) : i # j => codes[i] # codes[j])
  /\ [][LET codes == getStoredShortCodes
            after == getStoredShortCodes'
        IN  IF \E i \in 1..Len(codes) : codes[i] = probe'.added
            THEN after = codes
            ELSE /\ after[1] = probe'.added
                 /\ Len(after) = IF Len(codes) < 50 THEN Len(codes) + 1 ELSE 50
                 /\ \A i \in 2..Len(after) : after[i] = codes[i - 1]]_vars

\* the list is full and the codes added first have been dropped: the code
\* added last is first, and the oldest code left is the fourth created
C29_Witness ==
  LET codes == getStoredShortCodes
  IN  /\ Len(codes) = 50
      /\ codes[1] = probe.added
      /\ codes[1] = 53
      /\ codes[50] = 4

(***************************************************************************)
(* Properties of the health check (HealthSpec)                             *)
(***************************************************************************)
\* the messages of QueryRejections that contain a connection pattern
ConnectionMessages ==
  { <<"Connection", SP, "refused">>,
    <<"ECONNREFUSED">>,
    <<"ETIMEDOUT">>,
    <<"getaddrinfo", SP, "ENOTFOUND", SP, "db">>,
    <<"Can't", SP, "reach", SP, "database", SP, "server">>,
    <<"Prisma", SP, "Client", SP, "not", SP, "generated">> }

\* the call of the health check is over
HealthOver == health.pc \in {"returned", "threw"}

\* what a call in which the query or the timer settled first ends with
HealthOutcome(h) ==
  IF Head(h.settled) = "timer"
  THEN [pc |-> "threw", result |-> "none",
        error |-> HealthTimeoutError(h.timeoutMs)]
  ELSE IF h.query.state = "resolved"
  THEN [pc |-> "returned", result |-> "true", error |-> NoError]
  ELSE IF h.query.isError /\ h.query.message \in ConnectionMessages
  THEN [pc |-> "threw", result |-> "none", error |-> HealthConnectionError]
  ELSE [pc |-> "threw", result |-> "none", error |-> HealthError]

\* C25: a call of check that is over returned true if the query resolved
\* before the timer fired, threw DatabaseTimeoutError if the timer fired
\* while the query was pending, and if the query rejected first threw
\* DatabaseConnectionError for a message with a connection pattern and
\* DatabaseError otherwise; what settles after the first of the two, and
\* what settles after the call is over, changes nothing of that
C25_HealthCheckRace ==
  /\ [](\/ health.op # "check"
        \/ ~HealthOver
        \/ /\ health.settled # <<>>
           /\ health.pc = HealthOutcome(health).pc
           /\ health.result = HealthOutcome(health).result
           /\ health.error = HealthOutcome(health).error)
  /\ [][(HealthOver /\ health'.pc = health.pc /\ health'.op = health.op
           /\ health'.timeoutMs = health.timeoutMs
           /\ Len(health'.settled) > Len(health.settled))
          => /\ health'.result = health.result
             /\ health'.error = health.error]_vars

\* check returned true although the timer of the call has fired: it fired
\* after the query had resolved
C25_Witness ==
  /\ health.op = "check"
  /\ health.pc = "returned"
  /\ health.result = "true"
  /\ health.settled = <<"query", "timer">>

\* C26: a call of isHealthy never throws; once over it has returned true
\* if check returns true for what settled first, and false if check throws
\* for it, whichever error that is
C26_IsHealthyNeverThrows ==
  health.op = "isHealthy"
    => /\ health.pc # "threw"
       /\ health.error = NoError
       /\ health.pc = "returned"
            => /\ health.settled # <<>>
               /\ health.result =
                    IF HealthOutcome(health).pc = "returned" THEN "true"
                    ELSE "false"

\* isHealthy returned false for a query that was rejected, before the timer
\* fired, with an error that is no connection error
C26_Witness ==
  /\ health.op = "isHealthy"
  /\ health.pc = "returned"
  /\ health.result = "false"
  /\ Head(health.settled) = "query"
  /\ health.query.message = <<"syntax", SP, "error">>

(***************************************************************************)
(* Properties of the analytics port (AnalyticsSpec)                        *)
(***************************************************************************)
\* the caller's call of trackVisit looks up a code that has no record
TrackVisitOfUnknown ==
  /\ calls[Caller].op = "trackVisit"
  /\ calls[Caller].pc = "trackVisit"
  /\ findUnique(calls[Caller].shortCode) = NoUrl

\* C18: a trackVisit call for a code without a record returns, unless the
\* store call itself fails, and leaves the visits as they were; a getVisits
\* call for a code without a record returns 0
C18_UnknownCodeVisits ==
  [][/\ (TrackVisitOfUnknown /\ calls'[Caller] # calls[Caller])
         => /\ visits' = visits
            /\ urls' = urls
            /\ \/ Returned(calls'[Caller])
               \/ Threw(calls'[Caller]) /\ isDatabaseError(calls'[Caller].error)
     /\ (/\ calls[Caller].op = "getVisits"
         /\ InFlight(calls[Caller])
         /\ Returned(calls'[Caller])
         /\ findUnique(calls[Caller].shortCode) = NoUrl)
         => calls'[Caller].visitCount = 0
     /\ (/\ calls[Caller].op = "trackVisit"
         /\ calls[Caller].pc = "visit.create"
         /\ calls'[Caller] # calls[Caller])
         => findUnique(calls[Caller].shortCode) # NoUrl]_vars

\* a trackVisit call for a code without a record returned while another
\* code has a record, and no visit is stored
C18_Witness ==
  /\ calls[Caller].op = "trackVisit"
  /\ Returned(calls[Caller])
  /\ findUnique(calls[Caller].shortCode) = NoUrl
  /\ urls # {}
  /\ visits = EmptyBag

(***************************************************************************)
(* Properties of the trailing-slash scenario (PairSpec)                    *)
(***************************************************************************)
\* the calls for the locator and for the locator followed by a slash gave
\* one record: the record the caller remembers and the record of its last
\* call are the same, and the store holds one record at most
SameRecord ==
  /\ Cardinality(urls) <= 1
  /\ (/\ Returned(seen)
      /\ calls[Caller].op = "shorten"
      /\ Returned(calls[Caller]))
      => /\ calls[Caller].url = seen.url
         /\ urls = {seen.url}

\* the locator has neither a query nor a fragment
PathEndsLocator == \A i \in 1..Len(probe.raw) : probe.raw[i] \notin {"?", "#"}

C4_ShortCodesUnique ==
  \A r1, r2 \in urls : r1.shortCode = r2.shortCode => r1 = r2

\* a save was rejected for its code while two records are stored
C4_Witness ==
  /\ Cardinality(urls) = 2
  /\ \E p \in Procs :
       /\ calls[p].op = "shorten"
       /\ calls[p].error = handlePrismaError("P2002", "Failed to save URL")

\* C13: a stored record stays stored as it is, and findByShortCode for its
\* code returns it after every step of every caller
C13_NoOverride ==
  [][\A url \in urls :
       /\ url \in urls'
       /\ \A other \in urls' : other.shortCode = url.shortCode => other = url]_vars

\* two callers had the same free code in hand for different locators; one
\* record is stored under it and the other caller's save was rejected
C13_Witness ==
  \E p, q \in Procs :
    /\ calls[p].op = "shorten" /\ Returned(calls[p])
    /\ calls[p].url \in urls
    /\ findByShortCode(calls[p].url.shortCode) = calls[p].url
    /\ calls[q].op = "shorten"
    /\ calls[q].error = handlePrismaError("P2002", "Failed to save URL")
    /\ normalizeUrl(calls[q].originalUrl) # calls[p].url.originalUrl
    /\ Cardinality(urls) = 1

\* C14: of shorten calls started together for locators whose normalized
\* forms differ pairwise, every one that has ended returned a record, and
\* the records returned carry pairwise different short codes
C14_ConcurrentShortening ==
  /\ \A p \in Procs : ~InFlight(calls[p]) => Returned(calls[p])
  /\ \A p, q \in Procs :
       (p # q /\ Returned(calls[p]) /\ Returned(calls[q]))
         => calls[p].url.shortCode # calls[q].url.shortCode

\* C21: a shorten call whose save is rejected because the candidate was
\* stored by another call in the meantime does not fail: it goes back to the
\* loop with one more attempt counted, or ends as the loop ends at the cap
C21_SaveCollisionRetried ==
  [][\A p \in Procs :
       (/\ calls[p].op = "shorten"
        /\ calls[p].pc = "save"
        /\ createRejected(calls[p].url)
        /\ calls'[p] # calls[p])
         => \/ calls'[p].pc = "findByShortCode"
            \/ calls'[p].error = GenerationFailed]_vars

\* C22: nothing between the scan and the save of a shorten call keeps a
\* record of the same locator out: a save of a record whose code is free
\* ends, unless the store fails, by storing that record and returning it,
\* whatever records have been stored since the call's scan
C22_SaveAfterScanUnguarded ==
  [][\A p \in Procs :
       (/\ calls[p].op = "shorten"
        /\ calls[p].pc = "save"
        /\ ~createRejected(calls[p].url)
        /\ calls'[p] # calls[p])
         => \/ /\ Returned(calls'[p])
               /\ calls'[p].url = created(calls[p].url)
               /\ urls' = urls \cup {created(calls[p].url)}
            \/ /\ Threw(calls'[p])
               /\ urls' = urls
               /\ \E fault \in DriverFaults :
                    calls'[p].error = handlePrismaError(fault, "Failed to save URL")]_vars

\* two overlapping shorten calls of one locator have both returned, each
\* the record it saved: the store holds two records of that locator under
\* different short codes
C22_Witness ==
  \E p, q \in Procs :
    /\ p # q
    /\ calls[p].op = "shorten" /\ Returned(calls[p])
    /\ calls[q].op = "shorten" /\ Returned(calls[q])
    /\ calls[p].originalUrl = Locator(<<"/", "a">>)
    /\ calls[q].originalUrl = Locator(<<"/", "a">>)
    /\ calls[p].url \in urls
    /\ calls[q].url \in urls
    /\ calls[p].url.originalUrl = calls[q].url.originalUrl
    /\ calls[p].url.shortCode # calls[q].url.shortCode

\* the step is one of the call of p
StepOf(p) == calls'[p] # calls[p]

\* C24: no step of a resolve call changes the stored records; the step with
\* which a resolve call returns a locator adds one to the visit count of
\* its code and leaves the count of every other code as it was; no step of
\* a shorten call changes a visit count, and the code of a record it
\* creates has count 0; no step makes a visit count smaller
C24_FrameConditions ==
  [][/\ \A p \in Procs :
          (StepOf(p) /\ calls'[p].op = "resolve") => urls' = urls
     /\ \A p \in Procs :
          (/\ StepOf(p)
           /\ calls[p].op = "resolve"
           /\ InFlight(calls[p])
           /\ Returned(calls'[p])
           /\ calls'[p].location # Null)
            => \A shortCode \in generateShortCode :
                 getVisits(shortCode)' =
                   getVisits(shortCode)
                     + IF shortCode = calls[p].shortCode THEN 1 ELSE 0
     /\ \A p \in Procs :
          (StepOf(p) /\ calls'[p].op = "shorten")
            => /\ visits' = visits
               /\ \A shortCode \in generateShortCode :
                    getVisits(shortCode)' = getVisits(shortCode)
               /\ \A url \in urls' \ urls : getVisits(url.shortCode)' = 0
     /\ \A shortCode \in generateShortCode :
          getVisits(shortCode)' >= getVisits(shortCode)]_vars

\* with two records stored, a resolve call has returned the locator of one
\* of them: its code has one visit and the other code has none
C24_Witness ==
  \E p \in Procs :
    /\ Cardinality(urls) = 2
    /\ calls[p].op = "resolve"
    /\ Returned(calls[p])
    /\ calls[p].location # Null
    /\ getVisits(calls[p].shortCode) = 1
    /\ \E url \in urls :
         url.shortCode # calls[p].shortCode /\ getVisits(url.shortCode) = 0

\* C6: the visits counted for a stored code are the resolve calls that
\* returned its locator, however the calls overlap
C6_VisitAccounting ==
  \A shortCode \in generateShortCode :
    findUnique(shortCode) # NoUrl => getVisits(shortCode) = served[shortCode]

\* two overlapping resolve calls of one code with one user agent returned
C6_Witness ==
  \E shortCode \in generateShortCode :
    /\ served[shortCode] = 2
    /\ getVisits(shortCode) = 2
    /\ \A p \in Procs :
         /\ calls[p].op = "resolve"
         /\ Returned(calls[p])
         /\ calls[p].shortCode = shortCode
         /\ calls[p].userAgent = "Mozilla"

(***************************************************************************)
(* Properties of validateUrlFormat (FormatSpec)                            *)
(***************************************************************************)
\* the hosts the form refuses as local or private
IsRefusedHost(hostname) ==
  \/ hostname \in { <<"localhost">>, <<"127", ".", "0", ".", "0", ".", "1">> }
  \/ \E prefix \in { <<"192", ".", "168", ".">>, <<"10", ".">>,
                      <<"172", ".", "16", ".">> } :
       /\ Len(hostname) >= Len(prefix)
       /\ \A i \in 1..Len(prefix) : hostname[i] = prefix[i]
  \/ /\ Len(hostname) = 7
     /\ \A i \in 1..7 : IF i % 2 = 1 THEN hostname[i] \in Digits
                                      ELSE hostname[i] = "."

\* the checks of the form in their order, each with the type it reports
FormatChecks(url) ==
  LET trimmedUrl == trim(url)
      parsedUrl == URLParse(trimmedUrl)
  IN  << [fails |-> \A i \in 1..Len(url) : url[i] = SP, type |-> "empty"],
         [fails |-> \E scheme \in LetterSchemes :
                      trimmedUrl = <<scheme, "/", "/">>,
          type |-> "hostname"],
         [fails |-> length(trimmedUrl) > 2048, type |-> "length"],
         [fails |-> ~parsedUrl.ok, type |-> "format"],
         [fails |-> parsedUrl.protocol \notin {"http:", "https:"},
          type |-> "protocol"],
         [fails |-> parsedUrl.hostname = <<>>, type |-> "hostname"],
         [fails |-> IsRefusedHost(parsedUrl.hostname), type |-> "private"] >>

\* the type of the first check that fails, "null" when none does
FirstFailing(checks) ==
  LET failing == {i \in 1..Len(checks) : checks[i].fails}
  IN  IF failing = {} THEN "null"
      ELSE checks[CHOOSE i \in failing : \A j \in failing : i <= j].type

\* C30: validateUrlFormat reports the first check that fails in the order
\* empty, scheme-only ('hostname'), longer than 2048 characters after
\* trimming ('length'), unparsable ('format'), scheme other than http and
\* https ('protocol'), empty hostname ('hostname'), local or private host
\* ('private'); a string that fails none is valid with a null error, and
\* an http URL is accepted as an https one is
C30_FormatCheckOrder ==
  probe.result # NotValidated =>
    LET type == FirstFailing(FormatChecks(probe.url))
        parsedUrl == URLParse(trim(probe.url))
    IN  /\ probe.result.type = type
        /\ probe.result.isValid = (type = "null")
        /\ ( /\ parsedUrl.ok
             /\ parsedUrl.protocol = "http:"
             /\ length(trim(probe.url)) <= 2048
             /\ ~IsRefusedHost(parsedUrl.hostname) )
             => probe.result = Accepted

\* a string of more than 2048 characters between its spaces, with the ftp
\* scheme and the host localhost, is reported as too long
C30_Witness ==
  LET parsedUrl == URLParse(trim(probe.url))
  IN  /\ probe.result = Rejected("length")
      /\ Head(probe.url) = SP
      /\ length(probe.url) > length(trim(probe.url))
      /\ length(trim(probe.url)) > 2048
      /\ parsedUrl.ok
      /\ parsedUrl.protocol = "ftp:"
      /\ parsedUrl.hostname = <<"localhost">>

====
